---- MODULE Spec2Model ----
(***************************************************************************)
(* Log-structured object storage of card-io-fw (storage crate):            *)
(*   ll/objects.rs : object state encoding, header, writer, reader,        *)
(*                   iterator, ObjectOps                                   *)
(*   lib.rs        : Storage facade (mount, lookup, read, delete, store)   *)
(* The medium is modelled byte for byte.  The block layer and the medium   *)
(* trait are not part of the sources at hand; they are modelled from the   *)
(* specification (sections 3, 4.1, 4.4, 6).                                *)
(***************************************************************************)
EXTENDS Integers, Sequences, FiniteSets, TLC

VARIABLES
    gran,       \* M::WRITE_GRANULARITY of the mounted medium: "Bit" or "Word"
    medium,     \* medium[block][offset] : the bytes of the flash
    blocks,     \* Storage.blocks : cached classification of every block
    writer,     \* the live ObjectWriter, or NoObject
    reader,     \* the live ObjectReader, or NoObject
    returned,   \* bytes handed out by reader since its construction / rewind
    wlog,       \* medium writes issued by the operation in progress / last run
    stateReq,   \* the last state update sent to the medium (old state, new state)
    last,       \* the last call made and what it returned
    files,      \* the files written to the medium before it was mounted
    attempt,    \* the last Storage::store call, until its path is deleted:
                \* path, data, result, and what the path held before
    nops,       \* number of writer / update_state calls made so far
    produced,   \* the object the last completed allocate / write / finalize
                \* sequence left on the medium: its location and the bytes
                \* its writes accepted; NoObject once a later call touches it
    gc,         \* the relocation the garbage collector is at: the victim
                \* block and the object being moved out of it, or NoObject
    iter,       \* the live ObjectIterator: the location it is at and the
                \* number of objects it has yielded, or NoObject
    upload,     \* the last run of upload_or_store_measurement or the run of
                \* upload_stored in progress, or NoObject
    ecg,        \* reader_task, measure_impl and the message queue between
                \* them, or NoObject while no measurement runs
    sta         \* StaState: controller, connection_task_control and the
                \* tasks spawned, or NoObject

vars == <<gran, medium, blocks, writer, reader, returned, wlog, stateReq, last,
          files, attempt, nops, produced, gc, iter, upload, ecg, sta>>

(* the variables of the storage engine, and those of the application *)
storageVars == <<gran, medium, blocks, writer, reader, returned, wlog,
                 stateReq, last, files, attempt, nops, produced, gc, iter>>
appVars == <<upload, ecg, sta>>

-----------------------------------------------------------------------------
(* Medium geometry: RamStorage::<256, 32> of the facade's tests.            *)

STORAGE_SIZE == 256
BLOCK_SIZE == 32
BLOCK_COUNT == STORAGE_SIZE \div BLOCK_SIZE
METADATA_BLOCKS == 3
WORD_LEN == 4
PATH_BUF_LEN == 16

(* Bound of the model: ObjectWriter::new, ObjectWriter::write and direct     *)
(* ObjectOps::update_state calls per behaviour.                             *)
MaxOps == 2

Byte == 0..255
Blocks == 0..(BLOCK_COUNT - 1)
Offsets == 0..(BLOCK_SIZE - 1)

NoObject == [none |-> TRUE]

Min(a, b) == IF a < b THEN a ELSE b

RECURSIVE ByteAnd(_, _)
ByteAnd(a, b) ==
    IF a = 0 \/ b = 0 THEN 0
    ELSE (a % 2) * (b % 2) + 2 * ByteAnd(a \div 2, b \div 2)

Repeat(b, n) == [i \in 1..n |-> b]

(* F applied to the value of v, v being evaluated once *)
Bind(v, F(_)) == CHOOSE r \in {F(x) : x \in {v}} : TRUE

-----------------------------------------------------------------------------
(* ObjectState and its two encodings.                                       *)

ObjectStates == {"Free", "Allocated", "Finalized", "Deleted"}

FREE_WORDS == Repeat(255, 12)
ALLOCATED_WORDS == Repeat(0, 4) \o Repeat(255, 8)
FINALIZED_WORDS == Repeat(0, 8) \o Repeat(255, 4)
DELETED_WORDS == Repeat(0, 12)

(* an encoding whose Finalized sets a bit that Allocated has cleared *)
into_bits_resetting(state) ==
    CASE state = "Free" -> 255
      [] state = "Allocated" -> 254
      [] state = "Finalized" -> 253
      [] state = "Deleted" -> 0

into_bits(state) ==
    CASE state = "Free" -> 255
      [] state = "Allocated" -> 254
      [] state = "Finalized" -> 252
      [] state = "Deleted" -> 0

(* a decoder with a default: every unreserved byte reads as Free *)
from_bits_defaulting(bits) ==
    CASE bits = 254 -> "Allocated"
      [] bits = 252 -> "Finalized"
      [] bits = 0 -> "Deleted"
      [] OTHER -> "Free"

from_bits(bits) ==
    CASE bits = 255 -> "Free"
      [] bits = 254 -> "Allocated"
      [] bits = 252 -> "Finalized"
      [] bits = 0 -> "Deleted"
      [] OTHER -> "Err"

into_words(state) ==
    CASE state = "Free" -> FREE_WORDS
      [] state = "Allocated" -> ALLOCATED_WORDS
      [] state = "Finalized" -> FINALIZED_WORDS
      [] state = "Deleted" -> DELETED_WORDS

from_words(words) ==
    CASE words = FREE_WORDS -> "Free"
      [] words = ALLOCATED_WORDS -> "Allocated"
      [] words = FINALIZED_WORDS -> "Finalized"
      [] words = DELETED_WORDS -> "Deleted"
      [] OTHER -> "Err"

is_free(state) == state = "Free"

-----------------------------------------------------------------------------
(* StorageMedium / StoragePrivate: sizes derived from the geometry, and     *)
(* the read and write primitives.                                           *)

size_to_bytes(n) == IF n <= 256 THEN 1 ELSE IF n <= 65536 THEN 2 ELSE 4

block_size_bytes == size_to_bytes(BLOCK_SIZE)
block_count_bytes == size_to_bytes(BLOCK_COUNT)
object_location_bytes == block_size_bytes + block_count_bytes
object_size_bytes == block_size_bytes

width(g) == IF g = "Bit" THEN 1 ELSE WORD_LEN

object_status_bytes(g) == IF g = "Bit" THEN 1 ELSE 3 * WORD_LEN

align(g, size) ==
    IF g = "Bit" THEN size
    ELSE ((size + WORD_LEN - 1) \div WORD_LEN) * WORD_LEN

object_header_bytes(g) == align(g, object_status_bytes(g) + object_size_bytes)

(* read: the bytes at block/offset, or an error when out of bounds *)
MediumRead(med, block, offset, len) ==
    IF block \in Blocks /\ offset >= 0 /\ offset + len <= BLOCK_SIZE
    THEN [ok |-> TRUE, data |-> [i \in 1..len |-> med[block][offset + i - 1]]]
    ELSE [ok |-> FALSE, data |-> <<>>]

(* write: flash programming only clears bits *)
MediumWrite(med, block, offset, data) ==
    IF block \in Blocks /\ offset >= 0 /\ offset + Len(data) <= BLOCK_SIZE
    THEN [ok |-> TRUE,
          med |-> [med EXCEPT ![block] =
                     [o \in Offsets |->
                        IF o >= offset /\ o < offset + Len(data)
                        THEN ByteAnd(med[block][o], data[o - offset + 1])
                        ELSE med[block][o]]]]
    ELSE [ok |-> FALSE, med |-> med]

(* little-endian integers *)
RECURSIVE from_le_bytes(_)
from_le_bytes(bytes) ==
    IF bytes = <<>> THEN 0
    ELSE Head(bytes) + 256 * from_le_bytes(Tail(bytes))

RECURSIVE to_le_bytes(_, _)
to_le_bytes(n, count) ==
    IF count = 0 THEN <<>>
    ELSE <<n % 256>> \o to_le_bytes(n \div 256, count - 1)

-----------------------------------------------------------------------------
(* ObjectLocation and ObjectHeader                                          *)

Loc(block, offset) == [block |-> block, offset |-> offset]

HeaderErr == [ok |-> FALSE, state |-> "Err", object_size |-> 0]

decode_header(g, rd) ==
    IF ~rd.ok THEN HeaderErr
    ELSE Bind(IF g = "Bit" THEN from_bits(rd.data[1])
              ELSE from_words(SubSeq(rd.data, 1, object_status_bytes(g))),
              LAMBDA state :
                IF state = "Err" THEN HeaderErr
                ELSE [ok |-> TRUE, state |-> state,
                      object_size |->
                          from_le_bytes(SubSeq(rd.data, object_status_bytes(g) + 1,
                                               Len(rd.data)))])

ObjectHeader_read(g, med, location) ==
    Bind(MediumRead(med, location.block, location.offset,
                    object_size_bytes + object_status_bytes(g)),
         LAMBDA rd : decode_header(g, rd))

-----------------------------------------------------------------------------
(* Medium writes as the engine issues them.  A request is logged in wlog    *)
(* with the answer of the medium; io_fail is a medium I/O failure.          *)

Req(kind, block, offset, data) ==
    [kind |-> kind, block |-> block, offset |-> offset, data |-> data]

(* a request as wlog keeps it: with what the medium answered *)
Logged(req, ok) ==
    [kind |-> req.kind, block |-> req.block, offset |-> req.offset,
     data |-> req.data, ok |-> ok]

Issue(med, req, io_fail) ==
    IF io_fail THEN [ok |-> FALSE, med |-> med]
    ELSE MediumWrite(med, req.block, req.offset, req.data)

(* ObjectState::write *)
ObjectState_write(g, state, location) ==
    Req("state", location.block, align(g, location.offset),
        IF g = "Bit" THEN <<into_bits(state)>> ELSE into_words(state))

(* ObjectOps::set_payload_size *)
set_payload_size(g, location, cursor) ==
    Req("size", location.block, align(g, object_status_bytes(g)),
        SubSeq(to_le_bytes(cursor, 4), 1, object_size_bytes))

(* the state an object location holds, as far as its header decodes *)
StateAt(g, med, location) == ObjectHeader_read(g, med, location).state

NoReq == [none |-> TRUE]

(* ObjectOps::update_state: [ok, med, log, req]; Free is refused unwritten *)
update_state(g, med, location, state, io_fail) ==
    IF is_free(state)
    THEN [ok |-> FALSE, med |-> med, log |-> <<>>, req |-> NoReq]
    ELSE Bind(ObjectState_write(g, state, location), LAMBDA rq :
         Bind(Issue(med, rq, io_fail), LAMBDA w :
           [ok |-> w.ok, med |-> w.med, log |-> <<Logged(rq, w.ok)>>,
            req |-> [location |-> location,
                     old |-> StateAt(g, med, location),
                     new |-> state]]))

-----------------------------------------------------------------------------
(* ObjectWriter.  Besides the fields of the struct, a writer of the model   *)
(* knows where the call in progress stands (pc), the state that call is to  *)
(* reach (target) and the state the medium held at its object when the call *)
(* began (was), and the bytes its write calls accepted so far (accepted).   *)

Writer(location, object, cursor, buffer, pc, target) ==
    [location |-> location, state |-> object.state,
     object_size |-> object.object_size, cursor |-> cursor,
     buffer |-> buffer, pc |-> pc, target |-> target, was |-> "none",
     accepted |-> <<>>]

(* ObjectWriter::new: the header is read back; only Allocated is refused *)
ObjectWriter_new(g, med, location) ==
    Bind(ObjectHeader_read(g, med, location), LAMBDA object :
      IF ~object.ok THEN [ok |-> FALSE, writer |-> NoObject]
      ELSE IF object.state = "Allocated" THEN [ok |-> FALSE, writer |-> NoObject]
      ELSE [ok |-> TRUE,
            writer |-> Writer(location, object, 0, <<>>, "idle", "none")])

data_write_offset(g, w) == w.location.offset + object_header_bytes(g) + w.cursor

(* space: BLOCK_SIZE - data_write_offset(), a usize subtraction *)
space(g, w) == BLOCK_SIZE - data_write_offset(g, w)

(* fill_buffer: [buffer, rest] *)
fill_buffer(g, buffer, data) ==
    IF g = "Bit" THEN [buffer |-> buffer, rest |-> data]
    ELSE LET copied == Min(Len(data), WORD_LEN - Len(buffer))
         IN  [buffer |-> buffer \o SubSeq(data, 1, copied),
              rest |-> SubSeq(data, copied + 1, Len(data))]

can_flush(g, buffer) == IF g = "Bit" THEN FALSE ELSE Len(buffer) = WORD_LEN

(* does flush issue a medium write? *)
flush_writes(g, w) == g # "Bit" /\ w.buffer # <<>>

delete_returns_early_free_only(state) == state = "Free"

(* ObjectWriter::delete: the states on which it returns Ok straight away *)
delete_returns_early(state) ==
    state \in {"Free", "Deleted"}

flush_req(g, w) == Req("flush", w.location.block, data_write_offset(g, w), w.buffer)


(* ObjectWriter::allocate -> set_state(Allocated): the cached state is set  *)
(* before the medium is asked                                               *)
ObjectWriter_allocate(g, med, w, io_fail) ==
    Bind(update_state(g, med, w.location, "Allocated", io_fail), LAMBDA u :
      [kind |-> IF u.ok THEN "Ok" ELSE "Err", med |-> u.med, log |-> u.log,
       req |-> u.req, writer |-> [w EXCEPT !.state = "Allocated"]])

WritePanic(med, log) ==
    [kind |-> "Panic", med |-> med, log |-> log, writer |-> NoObject]

(* ObjectWriter::write, lines 301-317: the aligned part of `data` goes to   *)
(* the medium, the rest to the buffer; `len` is the length of the input of  *)
(* the call, `data` what fill_buffer left of it                             *)
write_aligned(g, med, w, log, data, len, fail_at, checked) ==
    Bind(len - (Len(data) % width(g)), LAMBDA aligned_bytes :
      IF aligned_bytes > Len(data) THEN WritePanic(med, log)
      ELSE
        Bind(Req("data", w.location.block, data_write_offset(g, w),
                 SubSeq(data, 1, aligned_bytes)), LAMBDA rq :
        Bind(Issue(med, rq, fail_at = Len(log) + 1), LAMBDA d :
          IF ~d.ok
          THEN [kind |-> "Err", med |-> d.med,
                log |-> Append(log, Logged(rq, FALSE)),
                writer |-> w]
          ELSE
            Bind(fill_buffer(g, w.buffer,
                             SubSeq(data, aligned_bytes + 1, Len(data))),
                 LAMBDA fb :
              IF fb.rest # <<>> /\ checked
              THEN WritePanic(d.med, Append(log, Logged(rq, TRUE)))
              ELSE [kind |-> "Ok", med |-> d.med,
                    log |-> Append(log, Logged(rq, TRUE)),
                    writer |-> [w EXCEPT !.buffer = fb.buffer,
                                         !.cursor = w.cursor + len]]))))

(* ObjectWriter::write, lines 294-299: a buffer that holds bytes is topped  *)
(* up first and flushed once full                                           *)
write_buffered(g, med, w, data, fail_at, checked) ==
    Bind(fill_buffer(g, w.buffer, data), LAMBDA fb :
    Bind([w EXCEPT !.buffer = fb.buffer], LAMBDA w1 :
      IF can_flush(g, w1.buffer) /\ flush_writes(g, w1)
      THEN Bind(flush_req(g, w1), LAMBDA rq :
           Bind(Issue(med, rq, fail_at = 1), LAMBDA f :
             IF ~f.ok
             THEN [kind |-> "Err", med |-> f.med,
                   log |-> <<Logged(rq, FALSE)>>, writer |-> w1]
             ELSE write_aligned(g, f.med, [w1 EXCEPT !.buffer = <<>>],
                                <<Logged(rq, TRUE)>>,
                                fb.rest, Len(data), fail_at, checked)))
      ELSE write_aligned(g, med, w1, <<>>, fb.rest, Len(data), fail_at,
                         checked)))

(* a write without the space test: what ObjectWriter::write would be        *)
(* without lines 286-292                                                    *)
ObjectWriter_write_unbounded(g, med, w, data, fail_at, checked) ==
    IF w.state # "Allocated"
    THEN [kind |-> "Err", med |-> med, log |-> <<>>, writer |-> w]
    ELSE IF w.buffer # <<>>
    THEN write_buffered(g, med, w, data, fail_at, checked)
    ELSE write_aligned(g, med, w, <<>>, data, Len(data), fail_at, checked)

ObjectWriter_write_in_any_state(g, med, w, data, fail_at, checked) ==
    IF space(g, w) < 0 /\ checked THEN WritePanic(med, <<>>)
    ELSE IF space(g, w) >= 0 /\ space(g, w) < Len(data)
    THEN [kind |-> "Err", med |-> med, log |-> <<>>, writer |-> w]
    ELSE IF w.buffer # <<>>
    THEN write_buffered(g, med, w, data, fail_at, checked)
    ELSE write_aligned(g, med, w, <<>>, data, Len(data), fail_at, checked)

(* ObjectWriter::write.  fail_at numbers the medium write that meets an I/O *)
(* failure (0: none); checked tells a build with overflow checks and debug  *)
(* assertions from one without.  A slice taken out of range panics.         *)
ObjectWriter_write(g, med, w, data, fail_at, checked) ==
    IF w.state # "Allocated"
    THEN [kind |-> "Err", med |-> med, log |-> <<>>, writer |-> w]
    ELSE IF space(g, w) < 0 /\ checked THEN WritePanic(med, <<>>)
    ELSE IF space(g, w) >= 0 /\ space(g, w) < Len(data)
    THEN [kind |-> "Err", med |-> med, log |-> <<>>, writer |-> w]
    ELSE IF w.buffer # <<>>
    THEN write_buffered(g, med, w, data, fail_at, checked)
    ELSE write_aligned(g, med, w, <<>>, data, Len(data), fail_at, checked)

(* the stage that follows the size write of finalize / delete *)
AfterSize(g, w) == IF flush_writes(g, w) THEN "flush" ELSE "state"


-----------------------------------------------------------------------------
(* ObjectReader                                                             *)

Reader(location, object, cursor) ==
    [location |-> location, object_size |-> object.object_size, cursor |-> cursor]

(* a constructor that accepts every header that decodes, whatever its state: *)
(* what ObjectReader::new would be without its state test                   *)
ObjectReader_new_any_state(g, med, location) ==
    Bind(ObjectHeader_read(g, med, location), LAMBDA object :
      IF ~object.ok THEN [ok |-> FALSE, reader |-> NoObject]
      ELSE [ok |-> TRUE, reader |-> Reader(location, object, 0)])

(* ObjectReader::new: only a header that decodes to Finalized is accepted *)
ObjectReader_new(g, med, location) ==
    Bind(ObjectHeader_read(g, med, location), LAMBDA object :
      IF ~object.ok THEN [ok |-> FALSE, reader |-> NoObject]
      ELSE IF object.state # "Finalized" THEN [ok |-> FALSE, reader |-> NoObject]
      ELSE [ok |-> TRUE, reader |-> Reader(location, object, 0)])

(* ObjectReader::remaining, in unbounded integers:                          *)
(*     BLOCK_SIZE - (object_size - cursor)                                  *)
remaining(r) == BLOCK_SIZE - (r.object_size - r.cursor)

(* Either usize subtraction of remaining() may wrap: a build with overflow  *)
(* checks panics there.                                                     *)
remaining_overflows(r) == r.object_size < r.cursor \/ remaining(r) < 0

(* buf.len().min(self.remaining()) without overflow checks, usize being     *)
(* 2^32: a doubly wrapped difference is the integer value again, a singly   *)
(* wrapped one exceeds every buffer length.                                 *)
read_size(r, buf_len) ==
    IF remaining(r) < 0 THEN buf_len ELSE Min(buf_len, remaining(r))

(* ObjectReader::read: [kind, n, data, reader] *)
ObjectReader_read(g, med, r, buf_len, checked) ==
    IF checked /\ remaining_overflows(r)
    THEN [kind |-> "Panic", n |-> 0, data |-> <<>>, reader |-> NoObject]
    ELSE Bind(read_size(r, buf_len), LAMBDA n :
         Bind(MediumRead(med, r.location.block, r.location.offset + r.cursor, n),
              LAMBDA rd :
           IF ~rd.ok
           THEN [kind |-> "Err", n |-> 0, data |-> <<>>, reader |-> r]
           ELSE [kind |-> "Ok", n |-> n, data |-> rd.data,
                 reader |-> [r EXCEPT !.cursor = r.cursor + n]]))

(* ObjectReader::len as lookup uses it: the stored payload size *)
ObjectReader_len(r) == r.object_size

-----------------------------------------------------------------------------
(* Block layer: block header and classification                             *)

HEADER_BYTES == 4
KIND_METADATA == 0
KIND_DATA == 15

scan_block(med, block) ==
    CASE med[block][0] = KIND_METADATA -> "Metadata"
      [] med[block][0] = KIND_DATA -> "Data"
      [] OTHER -> "Unknown"

(* Storage::mount: every block is scanned *)
mount(med) == [b \in Blocks |-> scan_block(med, b)]

is_metadata(info) == info = "Metadata"

(* ObjectLocation::from_bytes / into_bytes: block index, then offset *)
ObjectLocation_from_bytes(bytes) ==
    IF Len(bytes) # object_location_bytes THEN [ok |-> FALSE, location |-> Loc(0, 0)]
    ELSE [ok |-> TRUE,
          location |-> Loc(from_le_bytes(SubSeq(bytes, 1, block_count_bytes)),
                           from_le_bytes(SubSeq(bytes, block_count_bytes + 1,
                                                Len(bytes))))]

ObjectLocation_into_bytes_offset_first(location) ==
    to_le_bytes(location.offset, block_size_bytes)
        \o to_le_bytes(location.block, block_count_bytes)

ObjectLocation_into_bytes(location) ==
    to_le_bytes(location.block, block_count_bytes)
        \o to_le_bytes(location.offset, block_size_bytes)

ObjectInfo_total_size_of_payload(g, header) == header.object_size

(* ObjectInfo::total_size *)
ObjectInfo_total_size(g, header) ==
    header.object_size + object_header_bytes(g)

(* ObjectIterator::new: the iterator is the location it is at *)
ObjectIterator_new(block) == Loc(block, HEADER_BYTES)

NoInfo(kind, it) ==
    [kind |-> kind, location |-> it, state |-> "none", object_size |-> 0,
     it |-> it]

(* ObjectIterator::next: [kind, location, state, object_size, it], kind     *)
(* being "Some", "None" or "Err" and it the iterator after the call         *)
ObjectIterator_next(g, med, it) ==
    IF it.offset + HEADER_BYTES >= BLOCK_SIZE THEN NoInfo("None", it)
    ELSE Bind(ObjectHeader_read(g, med, it), LAMBDA object :
           IF ~object.ok THEN NoInfo("Err", it)
           ELSE IF is_free(object.state) THEN NoInfo("None", it)
           ELSE [kind |-> "Some", location |-> it, state |-> object.state,
                 object_size |-> object.object_size,
                 it |-> Loc(it.block,
                            it.offset + ObjectInfo_total_size(g, object))])

(* read_metadata: the payload of a metadata object starts with the path     *)
(* hash and the location of the filename object                            *)
PATH_HASH_BYTES == 4

read_metadata(g, med, location) ==
    Bind(MediumRead(med, location.block,
                    location.offset + object_header_bytes(g),
                    PATH_HASH_BYTES + object_location_bytes), LAMBDA rd :
      IF ~rd.ok
      THEN [ok |-> FALSE, path_hash |-> 0, filename_location |-> Loc(0, 0),
            location |-> location]
      ELSE [ok |-> TRUE,
            path_hash |-> from_le_bytes(SubSeq(rd.data, 1, PATH_HASH_BYTES)),
            filename_location |->
                ObjectLocation_from_bytes(
                    SubSeq(rd.data, PATH_HASH_BYTES + 1, Len(rd.data))).location,
            location |-> location])

-----------------------------------------------------------------------------
(* Storage::lookup                                                          *)

(* a comparison that accepts every filename: what lookup would be without   *)
(* the test of lines 141-143                                                *)
compare_filename_accepting(g, med, r, path, read, checked) == "Ok"

(* lines 134-146: the stored filename is read in chunks of path_buf and     *)
(* compared with the path; the path slice read..read + bytes_read panics    *)
(* when it ends past the path                                               *)
RECURSIVE compare_filename(_, _, _, _, _, _)
compare_filename(g, med, r, path, read, checked) ==
    IF read >= Len(path) THEN "Ok"
    ELSE Bind(ObjectReader_read(g, med, r, PATH_BUF_LEN, checked), LAMBDA rr :
           CASE rr.kind = "Panic" -> "Panic"
             [] rr.kind = "Err" -> "Err"
             [] rr.n = 0 -> "Hang"
             [] read + rr.n > Len(path) -> "Panic"
             [] SubSeq(path, read + 1, read + rr.n) # rr.data -> "Mismatch"
             [] OTHER -> compare_filename(g, med, rr.reader, path,
                                          read + rr.n, checked))

(* lines 126-149: a metadata object with the path's hash *)
match_object(g, med, metadata, path, checked) ==
    Bind(ObjectReader_new(g, med, metadata.filename_location), LAMBDA rn :
      IF ~rn.ok THEN "Err"
      ELSE IF ObjectReader_len(rn.reader) # Len(path) THEN "Mismatch"
      ELSE compare_filename(g, med, rn.reader, path, 0, checked))

path_hash(path) == Len(path)

NotFound == [kind |-> "Err", why |-> "not_found", location |-> Loc(0, 0)]
Failed == [kind |-> "Err", why |-> "failed", location |-> Loc(0, 0)]
Panicked == [kind |-> "Panic", why |-> "panic", location |-> Loc(0, 0)]
Hung == [kind |-> "Hang", why |-> "hang", location |-> Loc(0, 0)]
Found(location) == [kind |-> "Ok", why |-> "found", location |-> location]

lookup_object_in_any_state(g, med, location, object, path, checked) ==
    Bind(read_metadata(g, med, location), LAMBDA metadata :
      IF ~metadata.ok THEN "Err"
      ELSE IF metadata.path_hash # path_hash(path) THEN "Next"
      ELSE Bind(match_object(g, med, metadata, path, checked), LAMBDA m :
             IF m = "Mismatch" THEN "Next" ELSE m))

(* lines 119-149, the body of the loop over the objects of a block: what    *)
(* lookup does with the object the iterator yielded; "Next" stands for      *)
(* continue 'objs                                                           *)
lookup_object(g, med, location, object, path, checked) ==
    IF object.state # "Finalized" THEN "Next"
    ELSE Bind(read_metadata(g, med, location), LAMBDA metadata :
           IF ~metadata.ok THEN "Err"
           ELSE IF metadata.path_hash # path_hash(path) THEN "Next"
           ELSE Bind(match_object(g, med, metadata, path, checked), LAMBDA m :
                  IF m = "Mismatch" THEN "Next" ELSE m))

Outcome(m, location) ==
    CASE m = "Ok" -> Found(location)
      [] m = "Err" -> Failed
      [] m = "Panic" -> Panicked
      [] m = "Hang" -> Hung

(* the scan of lookup from object `offset` of block `block_idx` on, with    *)
(* ObjectIterator::next inlined                                             *)
RECURSIVE lookup_from(_, _, _, _, _, _, _)
lookup_from(g, med, blks, path, block_idx, offset, checked) ==
    IF block_idx >= BLOCK_COUNT THEN NotFound
    ELSE IF ~is_metadata(blks[block_idx])
    THEN lookup_from(g, med, blks, path, block_idx + 1, HEADER_BYTES, checked)
    ELSE IF offset + HEADER_BYTES >= BLOCK_SIZE
    THEN lookup_from(g, med, blks, path, block_idx + 1, HEADER_BYTES, checked)
    ELSE
      Bind(ObjectHeader_read(g, med, Loc(block_idx, offset)), LAMBDA object :
        IF ~object.ok THEN Failed
        ELSE IF is_free(object.state)
        THEN lookup_from(g, med, blks, path, block_idx + 1, HEADER_BYTES, checked)
        ELSE
          Bind(lookup_object(g, med, Loc(block_idx, offset), object, path,
                             checked), LAMBDA m :
            IF m = "Next"
            THEN lookup_from(g, med, blks, path, block_idx,
                             offset + object.object_size + object_header_bytes(g),
                             checked)
            ELSE Outcome(m, Loc(block_idx, offset))))

lookup(g, med, blks, path, checked) ==
    lookup_from(g, med, blks, path, 0, HEADER_BYTES, checked)

(* Storage::read: the reader of the facade is bound to the object found *)
Storage_read(g, med, blks, path, checked) == lookup(g, med, blks, path, checked)

(* Storage::allocate_object and Storage::write_object are todo!() *)
allocate_object(path) == "Panic"
write_object(object, data) == "Panic"

(* Storage::store, up to the first medium write it would issue: the result  *)
(* of the first lookup is kept whatever it is, then the new object is       *)
(* allocated                                                                *)
Storage_store(g, med, blks, path, data, checked) ==
    Bind(lookup(g, med, blks, path, checked), LAMBDA overwritten_location :
      IF overwritten_location.kind \in {"Panic", "Hang"}
      THEN [kind |-> overwritten_location.kind, stage |-> "lookup"]
      ELSE IF allocate_object(path) = "Panic"
      THEN [kind |-> "Panic", stage |-> "allocate_object"]
      ELSE IF write_object(path, data) = "Panic"
      THEN [kind |-> "Panic", stage |-> "write_object"]
      ELSE [kind |-> "Ok", stage |-> "delete_file_at"])

(* ObjectLocation::read_metadata, as delete_file_at uses it: the header of  *)
(* the metadata object is read first                                        *)
read_metadata_at(g, med, location) ==
    Bind(ObjectHeader_read(g, med, location), LAMBDA object :
    Bind(read_metadata(g, med, location), LAMBDA m :
      [ok |-> object.ok /\ m.ok, object_size |-> object.object_size,
       filename_location |-> m.filename_location, location |-> location]))

(* next_object_location: the i-th data location of the payload, if any *)
next_object_location(g, med, metadata, i) ==
    Bind(PATH_HASH_BYTES + i * object_location_bytes, LAMBDA at :
      IF at + object_location_bytes > metadata.object_size
      THEN [ok |-> TRUE, some |-> FALSE, location |-> Loc(0, 0)]
      ELSE Bind(MediumRead(med, metadata.location.block,
                           metadata.location.offset + object_header_bytes(g) + at,
                           object_location_bytes), LAMBDA rd :
             IF ~rd.ok THEN [ok |-> FALSE, some |-> FALSE, location |-> Loc(0, 0)]
             ELSE [ok |-> TRUE, some |-> TRUE,
                   location |-> ObjectLocation_from_bytes(rd.data).location]))

(* lines 164-171: the data objects in chain order, then the metadata object *)
RECURSIVE delete_chain(_, _, _, _, _, _)
delete_chain_past_failures(g, med, metadata, i, log, fail_at) ==
    Bind(next_object_location(g, med, metadata, i), LAMBDA nx :
      IF ~nx.ok THEN [kind |-> "Err", med |-> med, log |-> log]
      ELSE IF nx.some
      THEN Bind(update_state(g, med, nx.location, "Deleted",
                             fail_at = Len(log) + 1), LAMBDA u :
             delete_chain(g, u.med, metadata, i + 1, log \o u.log, fail_at))
      ELSE Bind(update_state(g, med, metadata.location, "Deleted",
                             fail_at = Len(log) + 1), LAMBDA u :
             [kind |-> IF u.ok THEN "Ok" ELSE "Err", med |-> u.med,
              log |-> log \o u.log]))

delete_chain(g, med, metadata, i, log, fail_at) ==
    Bind(next_object_location(g, med, metadata, i), LAMBDA nx :
      IF ~nx.ok THEN [kind |-> "Err", med |-> med, log |-> log]
      ELSE IF nx.some
      THEN Bind(update_state(g, med, nx.location, "Deleted",
                             fail_at = Len(log) + 1), LAMBDA u :
             IF ~u.ok THEN [kind |-> "Err", med |-> u.med, log |-> log \o u.log]
             ELSE delete_chain(g, u.med, metadata, i + 1, log \o u.log, fail_at))
      ELSE Bind(update_state(g, med, metadata.location, "Deleted",
                             fail_at = Len(log) + 1), LAMBDA u :
             [kind |-> IF u.ok THEN "Ok" ELSE "Err", med |-> u.med,
              log |-> log \o u.log]))

(* Storage::delete_file_at; fail_at numbers the state update that meets an  *)
(* I/O failure (0: none)                                                    *)
delete_file_at(g, med, meta_location, fail_at) ==
    Bind(read_metadata_at(g, med, meta_location), LAMBDA metadata :
      IF ~metadata.ok THEN [kind |-> "Err", med |-> med, log |-> <<>>]
      ELSE Bind(update_state(g, med, metadata.filename_location, "Deleted",
                             fail_at = 1), LAMBDA u :
             IF ~u.ok THEN [kind |-> "Err", med |-> u.med, log |-> u.log]
             ELSE delete_chain(g, u.med, metadata, 1, u.log, fail_at)))

Storage_delete_unpropagated(g, med, location, fail_at) ==
    Bind(update_state(g, med, location.location, "Deleted", fail_at = 1),
         LAMBDA u :
      [kind |-> IF location.kind # "Ok" THEN location.kind
                ELSE IF u.ok THEN "Ok" ELSE "Err",
       med |-> u.med, log |-> u.log, location |-> location.location])

(* Storage::delete once lookup has returned `location`: [kind, med, log,    *)
(* location]; a lookup that did not return Ok ends the call                 *)
Storage_delete(g, med, location, fail_at) ==
    IF location.kind # "Ok"
    THEN [kind |-> location.kind, med |-> med, log |-> <<>>,
          location |-> Loc(0, 0)]
    ELSE Bind(delete_file_at(g, med, location.location, fail_at), LAMBDA r :
           [kind |-> r.kind, med |-> r.med, log |-> r.log,
            location |-> location.location])

-----------------------------------------------------------------------------
(* The media a Storage is mounted on: freshly formatted, or holding files   *)
(* written before this mount.  A file is a metadata object (path hash,      *)
(* filename location, data location) in a metadata block and a filename     *)
(* object and a data object in a data block; "half_deleted" is a delete     *)
(* interrupted after its first state update, "deleted" a completed one.     *)

PathAB == <<97, 98>>
PathCD == <<99, 100>>
PathLong == <<97, 98, 99, 100, 101, 102, 103, 104,
              105, 106, 107, 108, 109, 110, 111, 112>>
(* a path of the length of PathLong that differs from it in its last byte *)
PathOther == [PathLong EXCEPT ![Len(PathLong)] = 113]
Paths == {PathAB, PathCD, PathLong, PathOther}

DataOld == <<1, 2, 3>>
DataNew == <<7>>

FileStatus == {"live", "half_deleted", "deleted"}
FileKinds == [path : Paths, status : FileStatus]

SetBytes(med, block, offset, data) ==
    [med EXCEPT ![block] =
        [o \in Offsets |->
            IF o >= offset /\ o < offset + Len(data)
            THEN data[o - offset + 1] ELSE med[block][o]]]

header_bytes_of(g, state, size) ==
    LET enc == IF g = "Bit" THEN <<into_bits(state)>> ELSE into_words(state)
        used == enc \o to_le_bytes(size, object_size_bytes)
    IN  used \o Repeat(255, object_header_bytes(g) - Len(used))

object_bytes(g, state, payload) ==
    header_bytes_of(g, state, Len(payload)) \o payload

(* BlockOps::format_storage: every block erased, the first metadata_blocks  *)
(* blocks marked Metadata, the others Data                                  *)
format_storage(metadata_blocks) ==
    [b \in Blocks |->
        [o \in Offsets |->
            IF o = 0 THEN (IF b < metadata_blocks THEN KIND_METADATA ELSE KIND_DATA)
            ELSE 255]]

(* BlockInfo::new_unknown for every block *)
new_unknown == [b \in Blocks |-> "Unknown"]

(* the loop of Storage::mount from `block` on: [kind, blocks, scanned].      *)
(* scanned lists the blocks scan_block was called for; fail_at numbers the  *)
(* scan that meets a medium failure (0: none); an error leaves no Storage   *)
RECURSIVE scan_blocks_past_failures(_, _, _, _, _)
scan_blocks_past_failures(med, block, blks, scanned, fail_at) ==
    IF block >= BLOCK_COUNT
    THEN [kind |-> "Ok", blocks |-> blks, scanned |-> scanned]
    ELSE scan_blocks_past_failures(med, block + 1,
             IF fail_at = block + 1 THEN blks
             ELSE [blks EXCEPT ![block] = scan_block(med, block)],
             Append(scanned, block), fail_at)

RECURSIVE scan_blocks(_, _, _, _, _)
scan_blocks(med, block, blks, scanned, fail_at) ==
    IF block >= BLOCK_COUNT
    THEN [kind |-> "Ok", blocks |-> blks, scanned |-> scanned]
    ELSE IF fail_at = block + 1
    THEN [kind |-> "Err", blocks |-> NoObject,
          scanned |-> Append(scanned, block)]
    ELSE scan_blocks(med, block + 1,
                     [blks EXCEPT ![block] = scan_block(med, block)],
                     Append(scanned, block), fail_at)

(* Storage::mount with medium failures *)
Storage_mount(med, fail_at) == scan_blocks(med, 0, new_unknown, <<>>, fail_at)

(* BlockOps::format_storage that meets a medium failure at its k-th block   *)
(* (0: none): [ok, med, log], the blocks before it formatted                *)
format_storage_until(med, metadata_blocks, k) ==
    [ok |-> k = 0,
     med |-> [b \in Blocks |->
                IF k = 0 \/ b < k - 1 THEN format_storage(metadata_blocks)[b]
                ELSE med[b]],
     log |-> [i \in 1..(IF k = 0 THEN BLOCK_COUNT ELSE k) |->
                Logged(Req("format", i - 1, 0, <<>>), k = 0 \/ i < k)]]

(* Storage::format_and_mount: [kind, blocks, scanned, med, log] *)
Storage_format_and_mount(med, metadata_blocks, format_fail_at, fail_at) ==
    Bind(format_storage_until(med, metadata_blocks, format_fail_at), LAMBDA f :
      IF ~f.ok
      THEN [kind |-> "Err", blocks |-> NoObject, scanned |-> <<>>,
            med |-> f.med, log |-> f.log]
      ELSE Bind(Storage_mount(f.med, fail_at), LAMBDA m :
             [kind |-> m.kind, blocks |-> m.blocks, scanned |-> m.scanned,
              med |-> f.med, log |-> f.log]))

(* where an object of `total` bytes goes when the next free byte is `pos`:  *)
(* in place if it fits the block, else at the start of the next block       *)
place(pos, total) ==
    IF pos.offset + total <= BLOCK_SIZE THEN pos
    ELSE Loc(pos.block + 1, HEADER_BYTES)

after(location, total) == Loc(location.block, location.offset + total)

name_state(status) == IF status = "live" THEN "Finalized" ELSE "Deleted"
data_state(status) == IF status = "deleted" THEN "Deleted" ELSE "Finalized"
meta_state(status) == IF status = "deleted" THEN "Deleted" ELSE "Finalized"

metadata_payload(path, filename_location, data_location) ==
    to_le_bytes(path_hash(path), PATH_HASH_BYTES)
        \o ObjectLocation_into_bytes(filename_location)
        \o ObjectLocation_into_bytes(data_location)

(* one file laid down: [med, mpos, dpos] *)
file_placed(g, med, f, name_loc, data_loc, meta_loc, payload) ==
    [med |-> SetBytes(
               SetBytes(
                 SetBytes(med, name_loc.block, name_loc.offset,
                          object_bytes(g, name_state(f.status), f.path)),
                 data_loc.block, data_loc.offset,
                 object_bytes(g, data_state(f.status), DataOld)),
               meta_loc.block, meta_loc.offset,
               object_bytes(g, meta_state(f.status), payload)),
     mpos |-> after(meta_loc, object_header_bytes(g) + Len(payload)),
     dpos |-> after(data_loc, object_header_bytes(g) + Len(DataOld))]

place_file(g, med, f, mpos, dpos) ==
    Bind(place(dpos, object_header_bytes(g) + Len(f.path)), LAMBDA name_loc :
    Bind(place(after(name_loc, object_header_bytes(g) + Len(f.path)),
               object_header_bytes(g) + Len(DataOld)), LAMBDA data_loc :
    Bind(metadata_payload(f.path, name_loc, data_loc), LAMBDA payload :
    Bind(place(mpos, object_header_bytes(g) + Len(payload)), LAMBDA meta_loc :
      file_placed(g, med, f, name_loc, data_loc, meta_loc, payload)))))

RECURSIVE image_from(_, _, _, _, _)
image_from(g, med, fl, mpos, dpos) ==
    IF fl = <<>> THEN med
    ELSE Bind(place_file(g, med, Head(fl), mpos, dpos), LAMBDA p :
           image_from(g, p.med, Tail(fl), p.mpos, p.dpos))

image(g, fl) ==
    image_from(g, format_storage(METADATA_BLOCKS), fl,
               Loc(0, HEADER_BYTES), Loc(METADATA_BLOCKS, HEADER_BYTES))

File(path, status) == [path |-> path, status |-> status]

FileLists ==
    {<<>>,
     <<File(PathAB, "live")>>,
     <<File(PathLong, "live")>>,
     <<File(PathAB, "deleted")>>,
     <<File(PathAB, "live"), File(PathCD, "live")>>,
     <<File(PathAB, "half_deleted"), File(PathCD, "live")>>,
     <<File(PathCD, "deleted"), File(PathAB, "live")>>,
     <<File(PathAB, "live"), File(PathLong, "half_deleted")>>}


-----------------------------------------------------------------------------
(* What a medium holds, read off its bytes by the layout alone (no reader,  *)
(* no lookup): the objects of a block, the payload of an object, the files. *)

Payload(g, med, location) ==
    Bind(ObjectHeader_read(g, med, location), LAMBDA h :
      IF ~h.ok THEN <<>>
      ELSE MediumRead(med, location.block,
                      location.offset + object_header_bytes(g),
                      h.object_size).data)

RECURSIVE ObjectsFrom(_, _, _, _)
ObjectsFrom(g, med, block, offset) ==
    IF offset + object_header_bytes(g) > BLOCK_SIZE THEN {}
    ELSE Bind(ObjectHeader_read(g, med, Loc(block, offset)), LAMBDA h :
           IF ~h.ok \/ is_free(h.state) THEN {}
           ELSE {Loc(block, offset)} \cup
                ObjectsFrom(g, med, block,
                            offset + object_header_bytes(g) + h.object_size))

MetadataObjects(g, med, blks) ==
    UNION {ObjectsFrom(g, med, b, HEADER_BYTES) :
               b \in {c \in Blocks : is_metadata(blks[c])}}

(* the Finalized metadata objects whose Finalized filename object holds path *)
FilesNamed(g, med, blks, path) ==
    {l \in MetadataObjects(g, med, blks) :
        /\ StateAt(g, med, l) = "Finalized"
        /\ Bind(read_metadata(g, med, l), LAMBDA m :
              /\ m.ok
              /\ StateAt(g, med, m.filename_location) = "Finalized"
              /\ Payload(g, med, m.filename_location) = path)}

(* the first data object of the file whose metadata object is at location *)
DataLocation(g, med, location) ==
    next_object_location(g, med, read_metadata_at(g, med, location), 1).location

FileData(g, med, location) == Payload(g, med, DataLocation(g, med, location))

(* the contents the medium holds under path: at most one on the media here *)
HeldData(g, med, blks, path) ==
    {FileData(g, med, l) :
        l \in {f \in FilesNamed(g, med, blks, path) :
                  StateAt(g, med, DataLocation(g, med, f)) = "Finalized"}}

-----------------------------------------------------------------------------
(* State                                                                    *)

Call(op, path, location, kind, n, bytes) ==
    [op |-> op, path |-> path, location |-> location, kind |-> kind,
     n |-> n, bytes |-> bytes]

NoLoc == Loc(0, 0)

Granularities == {"Bit", "Word"}

InitWith(lists) ==
    /\ gran \in Granularities
    /\ files \in lists
    /\ medium = image(gran, files)
    /\ blocks = mount(medium)
    /\ writer = NoObject
    /\ reader = NoObject
    /\ returned = 0
    /\ wlog = <<>>
    /\ stateReq = NoReq
    /\ last = Call("mount", <<>>, NoLoc, "Ok", 0, <<>>)
    /\ attempt = NoObject
    /\ nops = 0
    /\ produced = NoObject
    /\ gc = NoObject
    /\ iter = NoObject
    /\ upload = NoObject
    /\ ecg = NoObject
    /\ sta = NoObject

Init == InitWith(FileLists)

(* no call is in progress on the live writer *)
Idle == IF writer = NoObject THEN TRUE ELSE writer.pc = "idle"

(* a panic halts the firmware; the medium is mounted again on restart *)
Restarted(kind, med) == IF kind \in {"Panic", "Hang"} THEN mount(med) ELSE blocks

-----------------------------------------------------------------------------
(* Storage facade calls.  They borrow the Storage exclusively: no writer or *)
(* reader of the object layer is alive across them.                         *)

StorageRead(path) ==
    /\ Idle
    /\ \E checked \in BOOLEAN :
         \E r \in {Storage_read(gran, medium, blocks, path, checked)} :
             /\ last' = Call("read", path, r.location, r.kind, 0, <<>>)
             /\ blocks' = Restarted(r.kind, medium)
    /\ writer' = NoObject
    /\ reader' = NoObject
    /\ returned' = 0
    /\ wlog' = <<>>
    /\ UNCHANGED <<gran, medium, stateReq, files, attempt, nops,
                   produced, gc, iter, appVars>>


(* the call record of a delete keeps, as n, the number of contents the path *)
(* held when the call was made                                              *)
StorageDelete(path) ==
    /\ Idle
    /\ \E checked \in BOOLEAN :
         \E location \in {lookup(gran, medium, blocks, path, checked)} :
         \E fail_at \in IF location.kind = "Ok" THEN 0..3 ELSE {0} :
         \E r \in {Storage_delete(gran, medium, location, fail_at)} :
         \E held \in {Cardinality(HeldData(gran, medium, blocks, path))} :
             /\ last' = Call("delete", path, r.location, r.kind, held, <<>>)
             /\ medium' = r.med
             /\ wlog' = r.log
             /\ blocks' = Restarted(r.kind, medium)
    /\ attempt' = IF attempt = NoObject THEN attempt
                  ELSE IF attempt.path = path THEN NoObject ELSE attempt
    /\ writer' = NoObject
    /\ reader' = NoObject
    /\ returned' = 0
    /\ UNCHANGED <<gran, stateReq, files, nops,
                   produced, gc, iter, appVars>>

StorageStore(path, data) ==
    /\ Idle
    /\ \E checked \in BOOLEAN :
         \E r \in {Storage_store(gran, medium, blocks, path, data, checked)} :
             /\ last' = Call("store", path, NoLoc, r.kind, 0, data)
             /\ blocks' = Restarted(r.kind, medium)
             /\ attempt' = [path |-> path, data |-> data, kind |-> r.kind,
                            old |-> HeldData(gran, medium, blocks, path)]
    /\ writer' = NoObject
    /\ reader' = NoObject
    /\ returned' = 0
    /\ wlog' = <<>>
    /\ UNCHANGED <<gran, medium, stateReq, files, nops,
                   produced, gc, iter, appVars>>

-----------------------------------------------------------------------------
(* ObjectReader calls                                                       *)

ReaderNew(location) ==
    /\ Idle
    /\ \E r \in {ObjectReader_new(gran, medium, location)} :
           /\ reader' = r.reader
           /\ last' = Call("reader_new", <<>>, location,
                           IF r.ok THEN "Ok" ELSE "Err", 0, <<>>)
    /\ writer' = NoObject
    /\ returned' = 0
    /\ wlog' = <<>>
    /\ UNCHANGED <<gran, medium, blocks, stateReq, files, attempt, nops,
                   produced, gc, iter, appVars>>

ReaderRead(buf_len) ==
    /\ reader # NoObject
    /\ \E checked \in BOOLEAN :
         \E r \in {ObjectReader_read(gran, medium, reader, buf_len, checked)} :
             /\ reader' = r.reader
             /\ returned' = IF r.kind = "Ok" THEN returned + r.n ELSE returned
             /\ last' = Call("reader_read", <<>>, reader.location, r.kind,
                             r.n, r.data)
             /\ blocks' = Restarted(r.kind, medium)
    /\ wlog' = <<>>
    /\ UNCHANGED <<gran, medium, writer, stateReq, files, attempt, nops,
                   produced, gc, iter, appVars>>

ReaderRewind ==
    /\ reader # NoObject
    /\ reader' = [reader EXCEPT !.cursor = 0]
    /\ returned' = 0
    /\ last' = Call("rewind", <<>>, reader.location, "Ok", 0, <<>>)
    /\ wlog' = <<>>
    /\ UNCHANGED <<gran, medium, blocks, writer, stateReq, files, attempt, nops,
                   produced, gc, iter, appVars>>


-----------------------------------------------------------------------------
(* ObjectWriter and ObjectOps calls.  finalize and delete issue up to three *)
(* medium writes; each write is a step, so that power can be lost between   *)
(* two of them.  Their call record keeps the cursor (n) and the buffered    *)
(* bytes the call found in the writer.                                      *)

(* ObjectWriter::new, as long as fewer than `bound` calls were made *)
WriterNewWithin(location, bound) ==
    /\ Idle
    /\ nops < bound
    /\ \E r \in {ObjectWriter_new(gran, medium, location)} :
           /\ writer' = r.writer
           /\ last' = Call("writer_new", <<>>, location,
                           IF r.ok THEN "Ok" ELSE "Err", 0, <<>>)
    /\ reader' = NoObject
    /\ returned' = 0
    /\ wlog' = <<>>
    /\ nops' = nops + 1
    /\ produced' = NoObject
    /\ UNCHANGED <<gran, medium, blocks, stateReq, files, attempt, gc, iter,
                   appVars>>

WriterNew(location) == WriterNewWithin(location, MaxOps)

WriterAllocate ==
    /\ writer # NoObject
    /\ writer.pc = "idle"
    /\ \E io_fail \in BOOLEAN :
         \E r \in {ObjectWriter_allocate(gran, medium, writer, io_fail)} :
             /\ medium' = r.med
             /\ writer' = r.writer
             /\ wlog' = r.log
             /\ stateReq' = r.req
             /\ last' = Call("allocate", <<>>, writer.location, r.kind, 0, <<>>)
    /\ UNCHANGED <<gran, blocks, reader, returned, files, attempt, nops,
                   produced, gc, iter, appVars>>

(* ObjectWriter::write, as long as fewer than `bound` calls were made *)
WriterWriteWithin(data, bound) ==
    /\ writer # NoObject
    /\ writer.pc = "idle"
    /\ nops < bound
    /\ \E fail_at \in 0..2, checked \in BOOLEAN :
         \E r \in {ObjectWriter_write(gran, medium, writer, data, fail_at, checked)} :
             /\ medium' = r.med
             /\ writer' = IF r.kind = "Ok"
                          THEN [r.writer EXCEPT
                                   !.accepted = writer.accepted \o data]
                          ELSE r.writer
             /\ wlog' = r.log
             /\ last' = Call("write", <<>>, writer.location, r.kind,
                             Len(data), data)
             /\ blocks' = Restarted(r.kind, r.med)
    /\ nops' = nops + 1
    /\ UNCHANGED <<gran, reader, returned, stateReq, files, attempt,
                   produced, gc, iter, appVars>>

WriterWrite(data) == WriterWriteWithin(data, MaxOps)

(* a size write whose failure is not propagated: what finalize and delete   *)
(* would do without the `?` after write_size                                *)
SizeStep_unpropagated(op, target, io_fail) ==
    \E rq \in {set_payload_size(gran, writer.location, writer.cursor)} :
    \E r \in {Issue(medium, rq, io_fail)} :
        /\ medium' = r.med
        /\ wlog' = <<Logged(rq, r.ok)>>
        /\ writer' = [writer EXCEPT !.pc = AfterSize(gran, writer),
                                    !.target = target,
                                    !.was = StateAt(gran, medium,
                                                    writer.location)]
        /\ last' = Call(op, <<>>, writer.location, "Pending", writer.cursor,
                        writer.buffer)
        /\ UNCHANGED stateReq

(* the size write that finalize, and delete on an Allocated object, begin    *)
(* with                                                                     *)
SizeStep(op, target, io_fail) ==
    \E rq \in {set_payload_size(gran, writer.location, writer.cursor)} :
    \E r \in {Issue(medium, rq, io_fail)} :
        /\ medium' = r.med
        /\ wlog' = <<Logged(rq, r.ok)>>
        /\ writer' = IF r.ok
                     THEN [writer EXCEPT !.pc = AfterSize(gran, writer),
                                         !.target = target,
                                         !.was = StateAt(gran, medium,
                                                         writer.location)]
                     ELSE NoObject
        /\ last' = Call(op, <<>>, writer.location,
                        IF r.ok THEN "Pending" ELSE "Err", writer.cursor,
                        writer.buffer)
        /\ UNCHANGED stateReq

(* ObjectWriter::finalize, up to and including its first medium write *)
WriterFinalize ==
    /\ writer # NoObject
    /\ writer.pc = "idle"
    /\ IF writer.state # "Allocated"
       THEN /\ writer' = NoObject
            /\ wlog' = <<>>
            /\ last' = Call("finalize", <<>>, writer.location, "Err", 0, <<>>)
            /\ UNCHANGED <<medium, stateReq>>
       ELSE \E io_fail \in BOOLEAN : SizeStep("finalize", "Finalized", io_fail)
    /\ UNCHANGED <<gran, blocks, reader, returned, files, attempt, nops,
                   produced, gc, iter, appVars>>

(* a flush whose failure is not propagated: what finalize and delete would  *)
(* do without the `?` after flush                                           *)
WriterFlushStep_unpropagated ==
    /\ writer # NoObject
    /\ writer.pc = "flush"
    /\ \E io_fail \in BOOLEAN :
         \E rq \in {flush_req(gran, writer)} :
         \E r \in {Issue(medium, rq, io_fail)} :
         \E op \in {IF writer.target = "Finalized" THEN "finalize"
                    ELSE "delete_object"} :
             /\ medium' = r.med
             /\ wlog' = Append(wlog, Logged(rq, r.ok))
             /\ writer' = [writer EXCEPT !.pc = "state", !.buffer = <<>>]
             /\ last' = Call(op, <<>>, writer.location, "Pending", last.n,
                             last.bytes)
    /\ UNCHANGED <<gran, blocks, reader, returned, stateReq, files, attempt, nops,
                   produced, gc, iter, appVars>>

(* flush, as finalize and delete call it when the word buffer holds bytes *)
WriterFlushStep ==
    /\ writer # NoObject
    /\ writer.pc = "flush"
    /\ \E io_fail \in BOOLEAN :
         \E rq \in {flush_req(gran, writer)} :
         \E r \in {Issue(medium, rq, io_fail)} :
         \E op \in {IF writer.target = "Finalized" THEN "finalize"
                    ELSE "delete_object"} :
             /\ medium' = r.med
             /\ wlog' = Append(wlog, Logged(rq, r.ok))
             /\ writer' = IF r.ok
                          THEN [writer EXCEPT !.pc = "state", !.buffer = <<>>]
                          ELSE NoObject
             /\ last' = Call(op, <<>>, writer.location,
                             IF r.ok THEN "Pending" ELSE "Err", last.n,
                             last.bytes)
    /\ UNCHANGED <<gran, blocks, reader, returned, stateReq, files, attempt, nops,
                   produced, gc, iter, appVars>>

(* set_state(target), the last write of finalize and delete *)
WriterStateStep ==
    /\ writer # NoObject
    /\ writer.pc = "state"
    /\ \E io_fail \in BOOLEAN :
         \E r \in {update_state(gran, medium, writer.location, writer.target,
                                io_fail)} :
         \E op \in {IF writer.target = "Finalized" THEN "finalize"
                    ELSE "delete_object"} :
             /\ medium' = r.med
             /\ wlog' = wlog \o r.log
             /\ stateReq' = r.req
             /\ last' = Call(op, <<>>, writer.location,
                             IF r.ok THEN "Ok" ELSE "Err", last.n, last.bytes)
             /\ produced' = IF r.ok /\ writer.target = "Finalized"
                                   /\ writer.was = "Allocated"
                            THEN [location |-> writer.location,
                                  data |-> writer.accepted]
                            ELSE produced
    /\ writer' = NoObject
    /\ UNCHANGED <<gran, blocks, reader, returned, files, attempt, nops, gc, iter,
                   appVars>>

(* ObjectWriter::delete, up to and including its first medium write *)
WriterDelete ==
    /\ writer # NoObject
    /\ writer.pc = "idle"
    /\ CASE delete_returns_early(writer.state) ->
              /\ writer' = NoObject
              /\ wlog' = <<>>
              /\ last' = Call("delete_object", <<>>, writer.location, "Ok", 0, <<>>)
              /\ UNCHANGED <<medium, stateReq>>
         [] writer.state = "Allocated" ->
              \E io_fail \in BOOLEAN : SizeStep("delete_object", "Deleted", io_fail)
         [] flush_writes(gran, writer) ->
              /\ writer' = [writer EXCEPT !.pc = "flush", !.target = "Deleted",
                                          !.was = StateAt(gran, medium,
                                                          writer.location)]
              /\ wlog' = <<>>
              /\ last' = Call("delete_object", <<>>, writer.location, "Pending",
                              writer.cursor, writer.buffer)
              /\ UNCHANGED <<medium, stateReq>>
         [] OTHER ->
              \E io_fail \in BOOLEAN :
                \E r \in {update_state(gran, medium, writer.location, "Deleted",
                                      io_fail)} :
                    /\ medium' = r.med
                    /\ wlog' = r.log
                    /\ stateReq' = r.req
                    /\ writer' = NoObject
                    /\ last' = Call("delete_object", <<>>, writer.location,
                                    IF r.ok THEN "Ok" ELSE "Err", 0, <<>>)
    /\ UNCHANGED <<gran, blocks, reader, returned, files, attempt, nops,
                   produced, gc, iter, appVars>>

(* ObjectOps::update_state called directly *)
UpdateState(location, state) ==
    /\ Idle
    /\ nops < MaxOps
    /\ \E io_fail \in BOOLEAN :
         \E r \in {update_state(gran, medium, location, state, io_fail)} :
             /\ medium' = r.med
             /\ wlog' = r.log
             /\ stateReq' = IF r.req = NoReq THEN stateReq ELSE r.req
             /\ last' = Call("update_state", <<>>, location,
                             IF r.ok THEN "Ok" ELSE "Err", 0, <<>>)
    /\ writer' = NoObject
    /\ reader' = NoObject
    /\ returned' = 0
    /\ nops' = nops + 1
    /\ produced' = NoObject
    /\ UNCHANGED <<gran, blocks, files, attempt, gc, iter, appVars>>

(* power is lost while a writer is alive: the writer is gone, the medium    *)
(* keeps what was written, and the storage is mounted again.  The call      *)
(* record names the call that was interrupted and, as its result, the state *)
(* the medium held at the object when that call began.                      *)
PowerLoss ==
    /\ writer # NoObject
    /\ last' = Call(IF writer.pc = "idle" THEN "power_loss"
                    ELSE IF writer.target = "Finalized"
                    THEN "power_loss_in_finalize"
                    ELSE "power_loss_in_delete",
                    <<>>, writer.location, writer.was, 0, <<>>)
    /\ writer' = NoObject
    /\ gc' = NoObject
    /\ reader' = NoObject
    /\ returned' = 0
    /\ blocks' = mount(medium)
    /\ UNCHANGED <<gran, medium, wlog, stateReq, files, attempt, nops,
                   produced, iter, appVars>>


-----------------------------------------------------------------------------
(* Inputs                                                                   *)

FirstMeta == Loc(0, HEADER_BYTES)
FirstData == Loc(METADATA_BLOCKS, HEADER_BYTES)
FreeSlot == Loc(BLOCK_COUNT - 1, HEADER_BYTES)
LastByte == Loc(BLOCK_COUNT - 1, BLOCK_SIZE - 1)

(* the object that follows the first filename object, and the first byte of *)
(* that filename's payload (no object header)                               *)
SecondData(g) == after(FirstData, object_header_bytes(g) + Len(PathAB))
InPayload(g) == after(FirstData, object_header_bytes(g))

ReaderLocs == {FirstMeta, FirstData, SecondData(gran), InPayload(gran),
               FreeSlot, LastByte}
WriterLocs == {FirstMeta, FirstData}
UpdateLocs == {FirstData}
ObjReaderLocs == {FirstMeta, FirstData, InPayload(gran), LastByte}

BufLens == {2, PATH_BUF_LEN}

MetaPayload == metadata_payload(PathAB, FirstData, SecondData("Bit"))
WriteData == {<<5, 6, 7>>, <<1, 2, 3, 4, 5>>, MetaPayload}
StoreData == {DataNew}

-----------------------------------------------------------------------------
(* Specifications                                                           *)

(* the facade and the reader on mounted media *)
Next ==
    \/ \E p \in Paths : StorageRead(p)
    \/ \E p \in Paths : StorageDelete(p)
    \/ \E p \in Paths, d \in StoreData : StorageStore(p, d)
    \/ \E l \in ReaderLocs : ReaderNew(l)
    \/ \E n \in BufLens : ReaderRead(n)
    \/ ReaderRewind

Spec == Init /\ [][Next]_vars

(* the object layer: writer, reader construction, state updates, power loss *)
InitObj == InitWith({<<>>, <<File(PathAB, "live")>>})

NextObj ==
    \/ \E l \in WriterLocs : WriterNew(l)
    \/ WriterAllocate
    \/ \E d \in WriteData : WriterWrite(d)
    \/ WriterFinalize
    \/ WriterFlushStep
    \/ WriterStateStep
    \/ WriterDelete
    \/ \E l \in UpdateLocs, st \in ObjectStates : UpdateState(l, st)
    \/ \E l \in ObjReaderLocs : ReaderNew(l)
    \/ \E n \in BufLens : ReaderRead(n)
    \/ ReaderRewind
    \/ PowerLoss

SpecObj == InitObj /\ [][NextObj]_vars

(* one writer on a freshly formatted medium, and time for a second write *)
MaxCalls == 3

InitWrite == InitWith({<<>>})

(* a free location that leaves room for one word of payload *)
NearEnd(g) == Loc(0, BLOCK_SIZE - object_header_bytes(g) - WORD_LEN)

NextWrite ==
    \/ \E l \in {FirstMeta, NearEnd(gran)} : WriterNewWithin(l, MaxCalls)
    \/ WriterAllocate
    \/ \E d \in WriteData : WriterWriteWithin(d, MaxCalls)
    \/ WriterFinalize
    \/ WriterFlushStep
    \/ WriterStateStep
    \/ WriterDelete

SpecWrite == InitWrite /\ [][NextWrite]_vars

-----------------------------------------------------------------------------
(* Garbage collector.  Its module is not part of the sources at hand; its   *)
(* steps follow the design contract of section 4.6.  The objects it writes  *)
(* are written through ObjectWriter and ObjectOps.  The collector of the    *)
(* model reclaims metadata blocks: no object points at a metadata object,   *)
(* so that a relocation has no chain pointer to rewrite.  A relocation      *)
(* counts as finalized once finalize has returned Ok; the original is then  *)
(* retired (marked Deleted), and a block none of whose objects is Finalized *)
(* any more is erased.                                                      *)

(* ObjectIterator::next until it returns None: where the free space of a    *)
(* block begins                                                             *)
RECURSIVE free_location(_, _, _, _)
free_location(g, med, block, offset) ==
    IF offset + HEADER_BYTES >= BLOCK_SIZE
    THEN [ok |-> FALSE, location |-> Loc(block, offset)]
    ELSE Bind(ObjectHeader_read(g, med, Loc(block, offset)), LAMBDA h :
           IF ~h.ok THEN [ok |-> FALSE, location |-> Loc(block, offset)]
           ELSE IF is_free(h.state)
           THEN [ok |-> TRUE, location |-> Loc(block, offset)]
           ELSE free_location(g, med, block,
                              offset + object_header_bytes(g) + h.object_size))

FinalizedIn(g, med, block) ==
    {l \in ObjectsFrom(g, med, block, HEADER_BYTES) :
        StateAt(g, med, l) = "Finalized"}

FirstOf(locations) ==
    CHOOSE l \in locations : \A m \in locations : l.offset <= m.offset

(* the metadata block that takes the relocated objects, and the others *)
SpareBlock == METADATA_BLOCKS - 1
GcVictims == {b \in Blocks : b < SpareBlock}

(* a relocation begins: fresh space in the spare block is allocated for the *)
(* first Finalized object of the victim                                     *)
GcRelocate(b) ==
    /\ writer = NoObject
    /\ gc = NoObject
    /\ FinalizedIn(gran, medium, b) # {}
    /\ \E source \in {FirstOf(FinalizedIn(gran, medium, b))} :
       \E fl \in {free_location(gran, medium, SpareBlock, HEADER_BYTES)} :
         /\ fl.ok
         /\ fl.location.offset + object_header_bytes(gran)
                + Len(Payload(gran, medium, source)) <= BLOCK_SIZE
         /\ \E r \in {ObjectWriter_new(gran, medium, fl.location)} :
              /\ r.ok
              /\ \E io_fail \in BOOLEAN :
                   \E a \in {ObjectWriter_allocate(gran, medium, r.writer,
                                                   io_fail)} :
                       /\ medium' = a.med
                       /\ wlog' = a.log
                       /\ stateReq' = a.req
                       /\ writer' = IF a.kind = "Ok" THEN a.writer ELSE NoObject
                       /\ gc' = IF a.kind = "Ok"
                                THEN [victim |-> b, source |-> source]
                                ELSE NoObject
                       /\ last' = Call("gc_allocate", <<>>, fl.location, a.kind,
                                       0, <<>>)
    /\ reader' = NoObject
    /\ returned' = 0
    /\ UNCHANGED <<gran, blocks, files, attempt, nops, produced, iter, appVars>>

(* the payload of the original is written to the copy *)
GcCopy ==
    /\ gc # NoObject
    /\ writer # NoObject
    /\ writer.pc = "idle"
    /\ writer.cursor = 0
    /\ \E fail_at \in 0..1, checked \in BOOLEAN :
         \E payload \in {Payload(gran, medium, gc.source)} :
         \E r \in {ObjectWriter_write(gran, medium, writer, payload, fail_at,
                                      checked)} :
             /\ medium' = r.med
             /\ wlog' = r.log
             /\ writer' = IF r.kind = "Ok"
                          THEN [r.writer EXCEPT !.accepted = payload]
                          ELSE NoObject
             /\ gc' = IF r.kind = "Ok" THEN gc ELSE NoObject
             /\ last' = Call("gc_copy", <<>>, writer.location, r.kind,
                             Len(payload), payload)
             /\ blocks' = Restarted(r.kind, r.med)
    /\ UNCHANGED <<gran, reader, returned, stateReq, files, attempt, nops,
                   produced, iter, appVars>>

(* the copy is finalized: the size write of ObjectWriter::finalize *)
GcFinalize ==
    /\ gc # NoObject
    /\ IF writer = NoObject THEN FALSE ELSE writer.cursor > 0
    /\ WriterFinalize

(* finalize has returned: after Ok the original is marked Deleted *)
GcRetire ==
    /\ gc # NoObject
    /\ writer = NoObject
    /\ IF last.op = "finalize" /\ last.kind = "Ok"
       THEN \E io_fail \in BOOLEAN :
              \E u \in {update_state(gran, medium, gc.source, "Deleted",
                                     io_fail)} :
                  /\ medium' = u.med
                  /\ wlog' = u.log
                  /\ stateReq' = u.req
                  /\ last' = Call("gc_retire", <<>>, gc.source,
                                  IF u.ok THEN "Ok" ELSE "Err", 0, <<>>)
       ELSE /\ last' = Call("gc_retire", <<>>, gc.source, "Err", 0, <<>>)
            /\ wlog' = <<>>
            /\ UNCHANGED <<medium, stateReq>>
    /\ gc' = NoObject
    /\ UNCHANGED <<gran, blocks, writer, reader, returned, files, attempt, nops,
                   produced, iter, appVars>>

(* a block that holds objects, none of them Finalized, is erased and marked *)
(* as a metadata block again                                                *)
GcErase(b) ==
    /\ writer = NoObject
    /\ gc = NoObject
    /\ ObjectsFrom(gran, medium, b, HEADER_BYTES) # {}
    /\ FinalizedIn(gran, medium, b) = {}
    /\ \E erased \in {[medium EXCEPT ![b] = format_storage(METADATA_BLOCKS)[b]]} :
         /\ medium' = erased
         /\ blocks' = mount(erased)
    /\ last' = Call("gc_erase", <<>>, Loc(b, 0), "Ok", 0, <<>>)
    /\ wlog' = <<>>
    /\ UNCHANGED <<gran, writer, reader, returned, stateReq, files, attempt,
                   nops, produced, gc, iter, appVars>>

GcFiles ==
    {<<File(PathAB, "live")>>,
     <<File(PathAB, "live"), File(PathCD, "live")>>,
     <<File(PathAB, "half_deleted"), File(PathCD, "live")>>}

InitGC == InitWith(GcFiles)

(* metadata payloads are whole words: finalize has nothing to flush *)
NextGC ==
    \/ \E b \in GcVictims : GcRelocate(b)
    \/ GcCopy
    \/ GcFinalize
    \/ WriterStateStep
    \/ GcRetire
    \/ \E b \in GcVictims : GcErase(b)
    \/ PowerLoss

SpecGC == InitGC /\ [][NextGC]_vars

-----------------------------------------------------------------------------
(* Header decoding on arbitrary medium content: bytes are programmed into   *)
(* the state field of the object at FreeSlot through the medium, and the    *)
(* header is read back.                                                     *)

(* what is programmed, and at which offset of the state field *)
RawData(g) ==
    IF g = "Bit" THEN {<<b>> : b \in Byte}
    ELSE {into_words(st) : st \in ObjectStates} \cup
         {Repeat(0, WORD_LEN), <<254, 255, 255, 255>>, <<0, 0, 0, 255>>}
RawOffsets(g) == IF g = "Bit" THEN {0} ELSE {0, WORD_LEN, 2 * WORD_LEN}

(* Bound of the model: writes programmed into the state field *)
MaxRaw == 1

RawWrite(at, data) ==
    /\ Idle
    /\ nops < MaxRaw
    /\ \E r \in {MediumWrite(medium, FreeSlot.block, FreeSlot.offset + at,
                              data)} :
           /\ r.ok
           /\ medium' = r.med
           /\ last' = Call("medium_write", <<>>, FreeSlot, "Ok", Len(data), data)
    /\ nops' = nops + 1
    /\ wlog' = <<>>
    /\ UNCHANGED <<gran, blocks, writer, reader, returned, stateReq, files,
                   attempt,
                   produced, gc, iter, appVars>>

(* ObjectHeader::read; the call record keeps the state decoded as its       *)
(* result and the size decoded as n                                         *)
HeaderRead(location) ==
    /\ Idle
    /\ \E h \in {ObjectHeader_read(gran, medium, location)} :
           last' = Call("header_read", <<>>, location,
                        IF h.ok THEN h.state ELSE "Err", h.object_size, <<>>)
    /\ wlog' = <<>>
    /\ UNCHANGED <<gran, medium, blocks, writer, reader, returned, stateReq,
                   files, attempt, nops,
                   produced, gc, iter, appVars>>

InitHdr == InitWith({<<>>})

NextHdr ==
    \/ \E at \in RawOffsets(gran), data \in RawData(gran) : RawWrite(at, data)
    \/ \E l \in {FreeSlot, LastByte} : HeaderRead(l)

SpecHdr == InitHdr /\ [][NextHdr]_vars

(* a state field of the medium that no longer decodes: patterns programmed  *)
(* over the header of an object                                             *)
CorruptStates(g) ==
    IF g = "Bit" THEN {<<127>>, <<250>>}
    ELSE {<<254, 255, 255, 255>>, <<0, 0, 0, 255>>}

ProgramState(location, data) ==
    /\ Idle
    /\ nops < MaxRaw
    /\ \E r \in {MediumWrite(medium, location.block, location.offset, data)} :
           /\ r.ok
           /\ medium' = r.med
           /\ last' = Call("medium_write", <<>>, location, "Ok", Len(data), data)
    /\ nops' = nops + 1
    /\ wlog' = <<>>
    /\ UNCHANGED <<gran, blocks, writer, reader, returned, stateReq, files,
                   attempt, produced, gc, iter, appVars>>

(* Storage::store and Storage::read on media one of whose metadata object   *)
(* headers may have been damaged                                            *)
InitStore == InitWith(FileLists)

NextStore ==
    \/ \E data \in CorruptStates(gran) : ProgramState(FirstMeta, data)
    \/ \E p \in Paths, d \in StoreData : StorageStore(p, d)
    \/ \E p \in Paths : StorageRead(p)

SpecStore == InitStore /\ [][NextStore]_vars

(* ObjectLocation::into_bytes of a location of the medium; the call record  *)
(* keeps the significant bytes and their count                              *)
LocationIntoBytes(location) ==
    /\ \E bytes \in {ObjectLocation_into_bytes(location)} :
           last' = Call("into_bytes", <<>>, location, "Ok", Len(bytes), bytes)
    /\ UNCHANGED <<gran, medium, blocks, writer, reader, returned, wlog,
                   stateReq, files, attempt, nops, produced, gc, iter,
                   appVars>>

(* ObjectLocation::from_bytes of the bytes the last call produced, or of a  *)
(* slice of them one byte shorter or longer                                 *)
LocationFromBytes ==
    /\ last.op \in {"into_bytes", "from_bytes"}
    /\ \E bytes \in {last.bytes, Tail(last.bytes \o <<0>>),
                      last.bytes \o <<0>>, SubSeq(last.bytes, 1, 1)} :
         \E r \in {ObjectLocation_from_bytes(bytes)} :
           last' = Call("from_bytes", <<>>, r.location,
                        IF r.ok THEN "Ok" ELSE "Err", Len(bytes), bytes)
    /\ Len(last.bytes) <= object_location_bytes + 1
    /\ UNCHANGED <<gran, medium, blocks, writer, reader, returned, wlog,
                   stateReq, files, attempt, nops, produced, gc, iter,
                   appVars>>

InitLoc == InitWith({<<>>})

NextLoc ==
    \/ \E b \in Blocks, o \in Offsets : LocationIntoBytes(Loc(b, o))
    \/ LocationFromBytes

SpecLoc == InitLoc /\ [][NextLoc]_vars

(* Storage::mount on the medium as it is; the call record keeps the blocks  *)
(* scanned as bytes and the number of the scan that failed as n             *)
StorageMount ==
    /\ Idle
    /\ \E fail_at \in 0..BLOCK_COUNT :
         \E m \in {Storage_mount(medium, fail_at)} :
             /\ blocks' = m.blocks
             /\ last' = Call("storage_mount", <<>>, NoLoc, m.kind, fail_at,
                             m.scanned)
    /\ wlog' = <<>>
    /\ writer' = NoObject
    /\ reader' = NoObject
    /\ returned' = 0
    /\ UNCHANGED <<gran, medium, stateReq, files, attempt, nops, produced, gc,
                   iter, appVars>>

(* Storage::format_and_mount; wlog keeps the blocks format was asked to     *)
(* format and whether the medium did so                                     *)
FormatAndMount(metadata_blocks) ==
    /\ Idle
    /\ \E format_fail_at \in 0..2, fail_at \in 0..BLOCK_COUNT :
         \E m \in {Storage_format_and_mount(medium, metadata_blocks,
                                            format_fail_at, fail_at)} :
             /\ medium' = m.med
             /\ blocks' = m.blocks
             /\ wlog' = m.log
             /\ files' = IF m.med = medium THEN files ELSE <<>>
             /\ last' = Call("format_and_mount", <<>>, NoLoc, m.kind,
                             IF m.scanned = <<>> THEN 0 ELSE fail_at, m.scanned)
    /\ writer' = NoObject
    /\ reader' = NoObject
    /\ returned' = 0
    /\ attempt' = NoObject
    /\ UNCHANGED <<gran, stateReq, nops, produced, gc, iter, appVars>>

(* mounting and formatting media that hold files; reads on what was mounted *)
InitMount == InitWith(FileLists)

NextMount ==
    \/ StorageMount
    \/ \E metadata_blocks \in {1, METADATA_BLOCKS} : FormatAndMount(metadata_blocks)
    \/ \E p \in {PathAB} : blocks # NoObject /\ StorageRead(p)

SpecMount == InitMount /\ [][NextMount]_vars

(* Storage::delete_file_at on the metadata object of a file, as             *)
(* Storage::delete calls it with the location lookup found: a Finalized     *)
(* metadata object                                                          *)
DeleteFileAt(meta_location) ==
    /\ Idle
    /\ StateAt(gran, medium, meta_location) = "Finalized"
    /\ \E fail_at \in 0..3 :
         \E r \in {delete_file_at(gran, medium, meta_location, fail_at)} :
             /\ last' = Call("delete_file_at", <<>>, meta_location, r.kind, 0,
                             <<>>)
             /\ medium' = r.med
             /\ wlog' = r.log
    /\ writer' = NoObject
    /\ reader' = NoObject
    /\ returned' = 0
    /\ UNCHANGED <<gran, blocks, stateReq, files, attempt, nops, produced, gc,
                   iter, appVars>>

InitDelete == InitWith(FileLists)

NextDelete ==
    \/ \E l \in MetadataObjects(gran, medium, blocks) : DeleteFileAt(l)
    \/ \E p \in Paths : StorageRead(p)

SpecDelete == InitDelete /\ [][NextDelete]_vars

(* the object iterator over media that hold files and one object header     *)
(* programmed into the first free slot of the last block                    *)
Iterator(it, yielded) == [it |-> it, yielded |-> yielded]

(* ObjectIterator::new *)
IterNew(block) ==
    /\ Idle
    /\ iter' = Iterator(ObjectIterator_new(block), 0)
    /\ last' = Call("iter_new", <<>>, ObjectIterator_new(block), "Ok", 0, <<>>)
    /\ wlog' = <<>>
    /\ UNCHANGED <<gran, medium, blocks, writer, reader, returned, stateReq,
                   files, attempt, nops, produced, gc, appVars>>

(* ObjectIterator::next; the call record keeps the location the call was    *)
(* made at and, as n, the offset the iterator is at afterwards              *)
IterNext ==
    /\ Idle
    /\ iter # NoObject
    /\ IF iter = NoObject THEN FALSE ELSE iter.yielded <= BLOCK_SIZE
    /\ \E nx \in {ObjectIterator_next(gran, medium, iter.it)} :
           /\ iter' = Iterator(nx.it, IF nx.kind = "Some"
                                      THEN iter.yielded + 1 ELSE iter.yielded)
           /\ last' = Call("next", <<>>, iter.it, nx.kind, nx.it.offset, <<>>)
    /\ wlog' = <<>>
    /\ UNCHANGED <<gran, medium, blocks, writer, reader, returned, stateReq,
                   files, attempt, nops, produced, gc, appVars>>

(* object headers programmed into the free slot: state and size *)
RawHeaders(g) ==
    IF g = "Bit"
    THEN {<<into_bits(st), n>> : st \in ObjectStates, n \in {0, 1, 255}}
             \cup {<<127, 0>>}
    ELSE {into_words(st) \o <<n>> : st \in ObjectStates, n \in {0, 1, 255}}
             \cup {Repeat(0, WORD_LEN) \o <<1, 255, 255, 255>>}

InitIter == InitWith(FileLists)

NextIter ==
    \/ \E b \in Blocks : IterNew(b)
    \/ IterNext
    \/ \E data \in RawHeaders(gran) : RawWrite(0, data)

SpecIter == InitIter /\ [][NextIter]_vars

-----------------------------------------------------------------------------
(* Properties of the Storage facade                                         *)

(* a path that some file on the medium was written under, or that the last  *)
(* store call named                                                         *)
EverStored(path) ==
    \/ \E i \in DOMAIN files : files[i].path = path
    \/ IF attempt = NoObject THEN FALSE ELSE attempt.path = path

(* C1: Storage::read(p) and Storage::delete(p) of a path p that has never    *)
(* been stored return an error (not found), neither a location nor success, *)
(* and in particular they return.                                           *)
C1_NeverStoredIsNotFound ==
    (last.op \in {"read", "delete"} /\ ~EverStored(last.path))
        => last.kind = "Err"

(* C1 on the freshly formatted medium only, the case of the facade's tests  *)
C1_FreshMediumIsNotFound ==
    (last.op \in {"read", "delete"} /\ files = <<>>) => last.kind = "Err"

(* the last call is a read of the path of the store call before it *)
ReadAfterStore ==
    /\ last.op = "read"
    /\ IF attempt = NoObject THEN FALSE ELSE attempt.path = last.path

(* C2: Storage::store(p, data) followed by Storage::read(p) reproduces data: *)
(* the read returns a reader, and the bytes it is bound to are data.        *)
C2_StoreThenReadRoundTrip ==
    ReadAfterStore =>
        /\ last.kind = "Ok"
        /\ FileData(gran, medium, last.location) = attempt.data

(* C3: a Storage::store on a path that holds a file, failing before the new *)
(* chain is written, leaves the old content readable at that path after    *)
(* the restart: read returns a reader bound to the old bytes.               *)
C3_FailedStoreKeepsOldReadable ==
    (ReadAfterStore /\ attempt.kind # "Ok" /\ attempt.old # {}) =>
        /\ last.kind = "Ok"
        /\ FileData(gran, medium, last.location) \in attempt.old

(* C4: after Storage::store(p, new) on a path that held a file, a reader    *)
(* opened by read(p) is bound to exactly the bytes of new.                  *)
C4_StoreReplacesOccupiedPath ==
    (ReadAfterStore /\ attempt.old # {}) =>
        /\ last.kind = "Ok"
        /\ FileData(gran, medium, last.location) = attempt.data

(* C10: whenever a Metadata block holds a Finalized metadata object whose   *)
(* stored filename equals the path, the lookup of Storage::read returns the *)
(* location of such an object, whatever other objects the scan meets first. *)
C10_LookupFindsStoredFile ==
    (last.op = "read" /\ FilesNamed(gran, medium, blocks, last.path) # {}) =>
        /\ last.kind = "Ok"
        /\ last.location \in FilesNamed(gran, medium, blocks, last.path)

-----------------------------------------------------------------------------
(* Properties of the object layer                                           *)

(* no lookup returns the location *)
NeverLookedUp(location) ==
    \A p \in Paths, checked \in BOOLEAN :
        \A r \in {lookup(gran, medium, blocks, p, checked)} :
            r.kind = "Ok" => r.location # location

(* C5: power lost after ObjectWriter::finalize wrote the payload size of an  *)
(* Allocated object and before it wrote the Finalized state: after the      *)
(* re-mount the header of the object still decodes as Allocated,            *)
(* ObjectReader::new on it fails, and no lookup returns it.                 *)
C5_InterruptedFinalizeStaysAllocated ==
    (last.op = "power_loss_in_finalize" /\ last.kind = "Allocated") =>
        /\ StateAt(gran, medium, last.location) = "Allocated"
        /\ ~ObjectReader_new(gran, medium, last.location).ok
        /\ NeverLookedUp(last.location)

(* the kinds of the medium writes of the call, in the order of issue *)
Kinds(log) == [i \in DOMAIN log |-> log[i].kind]

(* the writes of a finalize that runs to its end: the buffer is flushed      *)
(* between the two header writes when it holds bytes                        *)
FinalizeOrder(g, buffered) ==
    IF g = "Word" /\ buffered # <<>> THEN <<"size", "flush", "state">>
    ELSE <<"size", "state">>

(* C6: ObjectWriter::finalize issues its medium writes in the order payload *)
(* size, flush of the buffered partial word, state Finalized; a write is    *)
(* issued only if every write before it succeeded, so the state is never    *)
(* written after a failed size write or flush; size and state are two       *)
(* requests, the size request carrying the size bytes only and the state    *)
(* request the encoding of Finalized only.                                  *)
C6_FinalizeWriteOrder ==
    last.op = "finalize" =>
        /\ \E k \in 0..3 :
               Kinds(wlog) = SubSeq(FinalizeOrder(gran, last.bytes), 1, k)
        /\ \A i \in DOMAIN wlog : \A j \in 1..(i - 1) : wlog[j].ok
        /\ last.kind = "Ok" =>
               /\ Kinds(wlog) = FinalizeOrder(gran, last.bytes)
               /\ \A i \in DOMAIN wlog : wlog[i].ok
        /\ \A i \in DOMAIN wlog :
               /\ wlog[i].kind = "size" =>
                      wlog[i].data = SubSeq(to_le_bytes(last.n, 4), 1,
                                            object_size_bytes)
               /\ wlog[i].kind = "state" =>
                      wlog[i].data = IF gran = "Bit"
                                     THEN <<into_bits("Finalized")>>
                                     ELSE into_words("Finalized")

(* a finalize that flushed a partial word has returned success *)
C6_Witness ==
    /\ last.op = "finalize"
    /\ last.kind = "Ok"
    /\ Kinds(wlog) = <<"size", "flush", "state">>

(* C7: ObjectReader::new succeeds if and only if the header at the location *)
(* decodes to Finalized; on Free, Allocated, Deleted or an undecodable      *)
(* header it returns an error and there is no reader.                       *)
C7_ReaderOnlyOverFinalized ==
    last.op = "reader_new" =>
        /\ last.kind = "Ok" <=>
               StateAt(gran, medium, last.location) = "Finalized"
        /\ last.kind \in {"Ok", "Err"}
        /\ IF last.kind = "Ok"
           THEN reader # NoObject /\ reader.location = last.location
           ELSE reader = NoObject

C7_Witness ==
    /\ last.op = "reader_new"
    /\ last.kind = "Ok"
    /\ StateAt(gran, medium, last.location) = "Finalized"

(* a reader was refused over an object left Allocated *)
C7_WitnessRefused ==
    /\ last.op = "reader_new"
    /\ last.kind = "Err"
    /\ StateAt(gran, medium, last.location) = "Allocated"

(* C8: the bytes an ObjectReader has returned since its construction or its *)
(* last rewind never exceed the stored payload size n of its object, and a  *)
(* read issued once n bytes have been returned yields 0 bytes.              *)
C8_ReaderIsFinite ==
    IF reader = NoObject THEN TRUE
    ELSE /\ returned <= reader.object_size
         /\ (/\ last.op = "reader_read"
             /\ last.kind = "Ok"
             /\ returned - last.n >= reader.object_size) => last.n = 0

(* a state update that stays within the lattice *)
LegalRequest(old, new) ==
    /\ new # "Free"
    /\ ~(new = "Allocated" /\ old \in {"Finalized", "Deleted"})
    /\ ~(new = "Finalized" /\ old = "Deleted")

(* C9: no operation of ObjectWriter or ObjectOps asks the medium to store   *)
(* Free, Allocated over a Finalized or Deleted object, or Finalized over a  *)
(* Deleted object.                                                          *)
C9_StateRequestsMoveForward ==
    IF stateReq = NoReq THEN TRUE
    ELSE LegalRequest(stateReq.old, stateReq.new)

-----------------------------------------------------------------------------
(* Properties of lookup, delete and error propagation                       *)

(* the metadata objects lookup compares the path with: Finalized, of the    *)
(* path's hash, their filename object Finalized                             *)
Candidates(g, med, blks, path) ==
    {l \in MetadataObjects(g, med, blks) :
        /\ StateAt(g, med, l) = "Finalized"
        /\ Bind(read_metadata(g, med, l), LAMBDA m :
              /\ m.ok
              /\ m.path_hash = path_hash(path)
              /\ StateAt(g, med, m.filename_location) = "Finalized")}

(* the filename stored for the metadata object at location *)
StoredName(g, med, location) ==
    Payload(g, med, read_metadata(g, med, location).filename_location)

(* C11: Storage::lookup(path) returns the location of a metadata object     *)
(* only if the filename stored for that object equals path, length and      *)
(* bytes; a path that shares its hash with a stored path, and differs from  *)
(* it, does not resolve to the object of the stored path.                   *)
C11_LookupMatchesFilename ==
    (\/ last.op = "read" /\ last.kind = "Ok"
     \/ last.op = "delete" /\ last.location # NoLoc) =>
        StoredName(gran, medium, last.location) = last.path

(* a path was looked up on a medium that holds a file of another name of    *)
(* the same length, and lookup returned no location                         *)
C11_Witness ==
    /\ last.op = "read"
    /\ last.kind = "Err"
    /\ \E l \in Candidates(gran, medium, blocks, last.path) :
           StoredName(gran, medium, l) # last.path

(* C12: Storage::delete(p) of a stored path p, on a medium that fails no     *)
(* write, succeeds, and after it nothing is held under p: a read(p) finds   *)
(* no file until p is stored again.                                         *)
C12_DeleteRemovesStoredPath ==
    (last.op = "delete" /\ last.n > 0 /\ \A i \in DOMAIN wlog : wlog[i].ok) =>
        /\ last.kind = "Ok"
        /\ HeldData(gran, medium, blocks, last.path) = {}
        /\ \A checked \in BOOLEAN :
               lookup(gran, medium, blocks, last.path, checked) = NotFound

WriterOps == {"allocate", "write", "finalize", "delete_object", "update_state"}

StateField(g, med, location) ==
    Bind(MediumRead(med, location.block, location.offset,
                    object_status_bytes(g) + object_size_bytes), LAMBDA rd :
      [ok |-> rd.ok,
       data |-> IF rd.ok THEN SubSeq(rd.data, 1, object_status_bytes(g))
                ELSE <<>>])

(* the reserved encodings of the four states *)
ReservedBits == {255, 254, 252, 0}
ReservedWords ==
    {Repeat(255, 12), Repeat(0, 4) \o Repeat(255, 8),
     Repeat(0, 8) \o Repeat(255, 4), Repeat(0, 12)}

Reserved(g, field) ==
    IF g = "Bit" THEN field[1] \in ReservedBits ELSE field \in ReservedWords

(* C14: ObjectHeader::read returns an error, never a state, whenever the    *)
(* state field holds a pattern that is not one of the four reserved         *)
(* encodings; on a reserved encoding it returns the state encoded.          *)
C14_UnreservedPatternIsError ==
    last.op = "header_read" =>
        \A f \in {StateField(gran, medium, last.location)} :
            IF ~f.ok \/ ~Reserved(gran, f.data) THEN last.kind = "Err"
            ELSE /\ last.kind \in ObjectStates
                 /\ f.data = IF gran = "Bit" THEN <<into_bits(last.kind)>>
                              ELSE into_words(last.kind)

(* a header whose state field holds an unreserved pattern was read *)
C14_Witness ==
    /\ last.op = "header_read"
    /\ last.kind = "Err"
    /\ StateField(gran, medium, last.location).ok
    /\ ~Reserved(gran, StateField(gran, medium, last.location).data)

-----------------------------------------------------------------------------
(* The header of a finalized object                                         *)

(* the write stays inside the header and the n payload bytes of the object  *)
(* at location                                                              *)
InsideObject(g, w, location, n) ==
    /\ w.block = location.block
    /\ w.offset >= location.offset
    /\ w.offset + Len(w.data) <= location.offset + object_header_bytes(g) + n

(* the step that completes a finalize with Ok, on an object the medium     *)
(* held as Allocated when finalize was called                               *)
FinalizeCompletes ==
    /\ IF writer = NoObject THEN FALSE
       ELSE writer.pc # "idle" /\ writer.target = "Finalized"
                /\ writer.was = "Allocated"
    /\ last'.op = "finalize"
    /\ last'.kind = "Ok"

(* C16: after allocate, writes totalling n bytes and a successful finalize  *)
(* of the object at L, ObjectHeader::read(L) returns Finalized with         *)
(* object_size = n, and finalize wrote no byte outside the header and the   *)
(* payload of that object.                                                  *)
C16_FinalizeWritesOwnSizeField ==
    [][FinalizeCompletes =>
        /\ \A h \in {ObjectHeader_read(gran, medium', last'.location)} :
               h.ok /\ h.state = "Finalized" /\ h.object_size = last'.n
        /\ \A i \in DOMAIN wlog' :
               InsideObject(gran, wlog'[i], last'.location, last'.n)]_vars

-----------------------------------------------------------------------------
(* Round trip through the object layer                                      *)

(* the bytes of stream from index first to index end, as far as it reaches  *)
Slice(stream, first, end) ==
    SubSeq(stream, first, Min(end, Len(stream)))

(* a read of the reader opened at the object the writer produced *)
ReadOfProduced ==
    /\ produced # NoObject
    /\ last.op = "reader_read"
    /\ IF produced = NoObject THEN FALSE
       ELSE last.location = produced.location

(* C17: an ObjectReader opened at an object that ObjectWriter produced by   *)
(* allocate, write d1..dk, finalize returns the concatenation d1..dk, the   *)
(* payload and not the header, and returns it again after rewind: every     *)
(* read succeeds and hands out the bytes of the concatenation that follow   *)
(* those handed out since the reader was opened or rewound, and nothing     *)
(* once they are all handed out.                                            *)
C17_ObjectRoundTrip ==
    ReadOfProduced =>
        /\ last.kind = "Ok"
        /\ IF reader = NoObject THEN FALSE
           ELSE last.bytes = Slice(produced.data, reader.cursor - last.n + 1,
                                   reader.cursor)

-----------------------------------------------------------------------------
(* Buffered writes under Word granularity                                   *)

(* the first n bytes the medium holds behind the header of the object at    *)
(* location                                                                 *)
PayloadBytes(g, med, location, n) ==
    MediumRead(med, location.block, location.offset + object_header_bytes(g),
               n).data

(* C18: under Word granularity, after write calls of any lengths and a      *)
(* finalize, every accepted byte is on the medium at the payload offset     *)
(* that equals its index in the concatenated input: buffered bytes are      *)
(* flushed to the position they were accepted for, and no later write       *)
(* overwrites them.                                                         *)
C18_BufferedBytesLandAtTheirIndex ==
    (produced # NoObject /\ gran = "Word") =>
        \A p \in {produced} :
            PayloadBytes(gran, medium, p.location, Len(p.data)) = p.data

-----------------------------------------------------------------------------
(* Panics of ObjectWriter::write                                            *)

(* C19: ObjectWriter::write never panics: whatever the granularity, the     *)
(* fill level of the word buffer and the length of an input that fits the   *)
(* remaining space, it returns Ok or Err.                                   *)
C19_WriteNeverPanics ==
    last.op = "write" => last.kind \in {"Ok", "Err"}

-----------------------------------------------------------------------------
(* Medium writes under Word granularity                                     *)

(* the writes a step adds to wlog *)
NewWrites ==
    IF Len(wlog') >= Len(wlog) /\ SubSeq(wlog', 1, Len(wlog)) = wlog
    THEN SubSeq(wlog', Len(wlog) + 1, Len(wlog'))
    ELSE wlog'

(* a write of whole words at a word boundary *)
WordAligned(w) ==
    /\ w.offset % WORD_LEN = 0
    /\ Len(w.data) % WORD_LEN = 0

(* the words the write touches are as the last erase left them *)
TargetsErased(med, w) ==
    \A o \in Offsets :
        (/\ o \div WORD_LEN >= w.offset \div WORD_LEN
         /\ o \div WORD_LEN <= (w.offset + Len(w.data) - 1) \div WORD_LEN)
            => med[w.block][o] = 255

(* C20: under Word granularity, every medium write that allocate, write,    *)
(* finalize and delete issue starts at a word boundary, has a length that   *)
(* is a multiple of the word length, and targets only words that were not   *)
(* written since the last erase.                                            *)
C20_WordWritesAlignedAndOnce ==
    [][gran = "Word" =>
          \A i \in DOMAIN NewWrites :
              /\ WordAligned(NewWrites[i])
              /\ TargetsErased(medium, NewWrites[i])]_vars

-----------------------------------------------------------------------------
(* Garbage collection                                                       *)

(* the contents the medium held under path when it was mounted *)
HeldAtMount(g, fl, path) ==
    Bind(image(g, fl), LAMBDA med : HeldData(g, med, mount(med), path))

(* C15: garbage collection erases a victim block only after every Finalized *)
(* object of it has been relocated and Finalized in another block, so that  *)
(* at every point, also after a crash at any step, every path that was      *)
(* readable before still resolves to its unchanged content.                 *)
C15_CollectionKeepsContent ==
    \A p \in Paths :
        \A held \in {HeldAtMount(gran, files, p)} :
            held # {} => HeldData(gran, medium, blocks, p) = held

-----------------------------------------------------------------------------
(* The state lattice and its encodings                                      *)

(* the legal transitions of the lattice *)
LatticeSteps ==
    {<<"Free", "Allocated">>, <<"Allocated", "Finalized">>,
     <<"Allocated", "Deleted">>, <<"Finalized", "Deleted">>}

(* every byte of t has only bits that the byte of s at its place has *)
OnlyClears(s, t) ==
    \A i \in DOMAIN t : ByteAnd(t[i], s[i]) = t[i]

(* the state the field at location reads as once ObjectState::write has     *)
(* written state over what the medium holds                                 *)
StateAfterWrite(g, med, location, state) ==
    Bind(Issue(med, ObjectState_write(g, state, location), FALSE), LAMBDA w :
      IF w.ok THEN StateAt(g, w.med, location) ELSE "Err")

(* C21: for every legal transition s -> t of the state lattice the encoding *)
(* of t only clears bits of the encoding of s, as a byte (into_bits) and    *)
(* byte by byte as words (into_words); the four encodings are pairwise      *)
(* distinct.  On a medium whose writes can only clear bits, a legal         *)
(* transition written over a state field that reads s therefore reads t.    *)
C21_TransitionsOnlyClearBits ==
    /\ \A st \in LatticeSteps :
           StateAt(gran, medium, FirstMeta) = st[1] =>
               StateAfterWrite(gran, medium, FirstMeta, st[2]) = st[2]
    /\ \A st \in LatticeSteps :
           /\ OnlyClears(<<into_bits(st[1])>>, <<into_bits(st[2])>>)
           /\ OnlyClears(into_words(st[1]), into_words(st[2]))
    /\ \A s, t \in ObjectStates :
           s # t => into_bits(s) # into_bits(t) /\ into_words(s) # into_words(t)

(* a legal transition has been written to the medium, and the state field   *)
(* reads as the new state                                                   *)
C21_Witness ==
    /\ stateReq # NoReq
    /\ IF stateReq = NoReq THEN FALSE
       ELSE /\ <<stateReq.old, stateReq.new>> \in LatticeSteps
            /\ stateReq.new = "Finalized"
            /\ StateAt(gran, medium, stateReq.location) = "Finalized"

-----------------------------------------------------------------------------
(* Construction of a writer                                                 *)

(* C22: ObjectWriter::new returns an error whenever the header at the       *)
(* location reads Allocated, and hands out a writer only when the header    *)
(* reads Free: never over an object that is Finalized or Deleted.           *)
C22_WriterOnlyOverFree ==
    last.op = "writer_new" =>
        \A st \in {StateAt(gran, medium, last.location)} :
            /\ st = "Allocated" => last.kind = "Err"
            /\ last.kind = "Ok" => st = "Free"

-----------------------------------------------------------------------------
(* Writes and the end of the block                                          *)

(* write is called with more bytes than space() allows *)
Oversize(g, w, data) ==
    IF w = NoObject THEN FALSE
    ELSE w.state = "Allocated" /\ Len(data) > space(g, w)

-----------------------------------------------------------------------------
(* Deleting an unfinished object                                            *)

(* the step that completes a delete with Ok, on an object the medium held   *)
(* as Allocated when delete was called                                      *)
DeleteCompletes ==
    /\ IF writer = NoObject THEN FALSE
       ELSE writer.pc # "idle" /\ writer.target = "Deleted"
                /\ writer.was = "Allocated"
    /\ last'.op = "delete_object"
    /\ last'.kind = "Ok"

(* C24: ObjectWriter::delete on an Allocated object first commits the       *)
(* payload size written so far (the cursor) to the header and only then     *)
(* writes state Deleted, so that an iterator that comes to the object       *)
(* afterwards skips header size + committed size bytes and lands on the     *)
(* next object header.                                                      *)
C24_DeleteCommitsSizeFirst ==
    [][DeleteCompletes =>
        /\ Kinds(wlog') = FinalizeOrder(gran, last'.bytes)
        /\ \A nx \in {ObjectIterator_next(gran, medium', last'.location)} :
               /\ nx.kind = "Some"
               /\ nx.state = "Deleted"
               /\ nx.it.offset = last'.location.offset
                                    + object_header_bytes(gran) + last'.n]_vars

(* a delete called on a writer whose object state is Free or Deleted *)
DeleteOfUnused ==
    /\ IF writer = NoObject THEN FALSE
       ELSE writer.pc = "idle" /\ writer.state \in {"Free", "Deleted"}
    /\ last'.op = "delete_object"

(* C25: ObjectWriter::delete on a writer whose object state is Free or      *)
(* Deleted returns Ok and issues no medium write: the medium is unchanged.  *)
C25_DeleteOfUnusedIsNoOp ==
    [][DeleteOfUnused =>
        /\ last'.kind = "Ok"
        /\ wlog' = <<>>
        /\ medium' = medium]_vars

C25_Witness ==
    /\ last.op = "delete_object"
    /\ last.kind = "Ok"
    /\ wlog = <<>>
    /\ writer = NoObject
    /\ StateAt(gran, medium, last.location) = "Deleted"

-----------------------------------------------------------------------------
(* Iterating the objects of a block                                         *)

(* a complete object header fits between `offset` and the block end *)
HeaderFits(g, offset) == offset + object_header_bytes(g) <= BLOCK_SIZE

(* the positions an iterator over one block passes through, from `it` on *)
RECURSIVE Walk(_, _, _)
Walk(g, med, it) ==
    Bind(ObjectIterator_next(g, med, it), LAMBDA nx :
      IF nx.kind = "Some" THEN {it} \cup Walk(g, med, nx.it) ELSE {it})

(* what the iterator is to answer at position `it`; a header that fits but  *)
(* does not decode leaves the answer open                                   *)
NextAsSpecified(g, med, it, nx) ==
    IF ~HeaderFits(g, it.offset) THEN nx.kind = "None"
    ELSE Bind(ObjectHeader_read(g, med, it), LAMBDA object :
           IF ~object.ok THEN TRUE
           ELSE IF is_free(object.state) THEN nx.kind = "None"
           ELSE /\ nx.kind = "Some"
                /\ nx.location = it
                /\ nx.state = object.state
                /\ nx.it = Loc(it.block, it.offset + object_header_bytes(g)
                                             + object.object_size))

(* C26: ObjectIterator over a block yields, in order, exactly the objects   *)
(* at offsets o_0 = block header size and o_(i+1) = o_i + object header     *)
(* size + payload size of object i, Allocated and Deleted ones included;    *)
(* it yields None at the first Free header or when a complete object        *)
(* header would not fit between the current offset and the block end, and   *)
(* it never reads header bytes at or beyond BLOCK_SIZE.                     *)
C26_IteratorYieldsExactOffsets ==
    \A b \in Blocks :
        /\ ObjectIterator_new(b) = Loc(b, HEADER_BYTES)
        /\ \A it \in Walk(gran, medium, ObjectIterator_new(b)) :
               NextAsSpecified(gran, medium, it,
                               ObjectIterator_next(gran, medium, it))

(* C27: iteration over a block terminates for every medium content: each    *)
(* ObjectIterator::next call that yields an object strictly increases the   *)
(* iterator's offset, so that after finitely many calls, bounded by the     *)
(* block size, next returns None or an error; and once next has returned    *)
(* None it keeps returning None while the medium is unchanged.              *)
C27_IterationTerminates ==
    [][(last'.op = "next" /\ iter # NoObject /\ iter' # NoObject) =>
        /\ last'.kind = "Some" => iter'.it.offset > iter.it.offset
        /\ last'.kind # "Some" => iter'.it = iter.it
        /\ iter'.yielded < BLOCK_SIZE
        /\ iter'.it.offset >= HEADER_BYTES
                                + iter'.yielded * object_header_bytes(gran)
        /\ (last.op = "next" /\ last.kind = "None" /\ medium' = medium)
               => last'.kind = "None"]_vars

C27_Witness ==
    /\ last.op = "next"
    /\ last.kind = "None"
    /\ IF iter = NoObject THEN FALSE
       ELSE iter.yielded >= 2 /\ iter.it.offset < BLOCK_SIZE

-----------------------------------------------------------------------------
(* Lookup and metadata objects that are not Finalized                       *)

(* the objects lookup comes to in the metadata blocks that are Allocated or *)
(* Deleted: location and header                                             *)
UnfinishedMetadata ==
    {nx \in {ObjectIterator_next(gran, medium, it) :
               it \in UNION {Walk(gran, medium, ObjectIterator_new(b)) :
                               b \in {bb \in Blocks : is_metadata(blocks[bb])}}} :
        nx.kind = "Some" /\ nx.state \in {"Allocated", "Deleted"}}

(* the payload of the object starts with the hash of `path` *)
HashMatches(location, path) ==
    \A m \in {read_metadata(gran, medium, location)} :
        IF m.ok THEN m.path_hash = path_hash(path) ELSE FALSE

(* C28: Storage::lookup never returns the location of a metadata object     *)
(* whose header state is not Finalized: metadata objects in state Allocated *)
(* or Deleted are skipped without their payload being interpreted, whatever *)
(* path hash or filename bytes they contain.                                *)
C28_LookupSkipsUnfinishedMetadata ==
    /\ \A nx \in UnfinishedMetadata, path \in Paths, checked \in BOOLEAN :
           lookup_object(gran, medium, nx.location,
                         [ok |-> TRUE, state |-> nx.state,
                          object_size |-> nx.object_size], path, checked) = "Next"
    /\ \A path \in Paths, checked \in BOOLEAN :
           \A r \in {lookup(gran, medium, blocks, path, checked)} :
               /\ r.kind = "Ok"
                     => StateAt(gran, medium, r.location) = "Finalized"
               /\ \A nx \in UnfinishedMetadata : r.location # nx.location
    /\ last.op \in {"read", "delete"} /\ last.kind = "Ok"
           => StateAt(gran, medium, last.location) = "Finalized"

C28_Witness ==
    /\ last.op = "read"
    /\ last.kind = "Err"
    /\ \E nx \in UnfinishedMetadata :
           nx.state = "Deleted" /\ HashMatches(nx.location, last.path)

-----------------------------------------------------------------------------
(* The order in which a file is deleted                                     *)

(* the data objects of a file in chain order, from the i-th on *)
RECURSIVE ChainFrom(_, _, _, _)
ChainFrom(g, med, metadata, i) ==
    Bind(next_object_location(g, med, metadata, i), LAMBDA nx :
      IF nx.ok /\ nx.some
      THEN <<nx.location>> \o ChainFrom(g, med, metadata, i + 1)
      ELSE <<>>)

(* filename object, data objects in chain order, metadata object *)
DeleteOrder(g, med, meta_location) ==
    Bind(read_metadata_at(g, med, meta_location), LAMBDA metadata :
      <<metadata.filename_location>> \o ChainFrom(g, med, metadata, 1)
          \o <<meta_location>>)

(* the medium after the writes of log that the medium accepted *)
RECURSIVE Applied(_, _)
Applied(med, log) ==
    IF log = <<>> THEN med
    ELSE Applied(Issue(med, Head(log), ~Head(log).ok).med, Tail(log))

(* C29: Storage::delete marks the objects of a file Deleted in the order    *)
(* filename object, each data object in chain order, metadata object last;  *)
(* the metadata object is marked Deleted only after every other object of   *)
(* the file has been marked Deleted successfully, so that a failure or a    *)
(* power loss part-way leaves the metadata object Finalized.                *)
C29_MetadataDeletedLast ==
    [][last'.op = "delete_file_at" =>
        \A order \in {DeleteOrder(gran, medium, last'.location)} :
            /\ Len(wlog') <= Len(order)
            /\ \A i \in DOMAIN wlog' :
                   /\ wlog'[i] = Logged(ObjectState_write(gran, "Deleted",
                                                          order[i]),
                                        wlog'[i].ok)
                   /\ i < Len(wlog') => wlog'[i].ok
            /\ last'.kind = "Ok" <=>
                   /\ Len(wlog') = Len(order)
                   /\ \A i \in DOMAIN wlog' : wlog'[i].ok
            /\ \A j \in 0..Len(wlog') :
                   \A cut \in {Applied(medium, SubSeq(wlog', 1, j))} :
                       IF StateAt(gran, cut, last'.location) = "Deleted"
                       THEN \A i \in DOMAIN order :
                                StateAt(gran, cut, order[i]) = "Deleted"
                       ELSE StateAt(gran, cut, last'.location) = "Finalized"
            /\ last'.kind # "Ok"
                   => StateAt(gran, medium', last'.location) = "Finalized"]_vars

C29_Witness ==
    /\ last.op = "delete_file_at"
    /\ last.kind = "Err"
    /\ Len(wlog) = 2
    /\ StateAt(gran, medium, last.location) = "Finalized"
    /\ \E path \in Paths : HashMatches(last.location, path)

-----------------------------------------------------------------------------
(* Store and a lookup that fails                                            *)

(* the header of the first metadata object does not decode: lookup, which   *)
(* reads it first, fails on it for every path                               *)
FirstHeaderCorrupt(g, med) == ~ObjectHeader_read(g, med, FirstMeta).ok

(* C30: Storage::store ignores only a not-found result of its initial       *)
(* lookup: when the lookup fails because of a medium I/O failure or a       *)
(* corrupt header, store returns that error and does not go on to allocate  *)
(* or write a new object chain.                                             *)
C30_StoreReturnsLookupFailure ==
    [][(/\ last'.op = "store"
        /\ FirstHeaderCorrupt(gran, medium)
        /\ \A checked \in BOOLEAN :
               lookup(gran, medium, blocks, last'.path, checked) = Failed)
           => last'.kind = "Err"]_vars

-----------------------------------------------------------------------------
(* Calls of the facade that only read                                       *)

(* the lookup of `path` returns no location, whatever the build *)
LookupFails(path) ==
    \A checked \in BOOLEAN :
        lookup(gran, medium, blocks, path, checked).kind # "Ok"

(* C31: Storage::lookup, Storage::read and a Storage::delete whose lookup   *)
(* fails issue only medium reads: they perform no write and no erase, so    *)
(* the medium content and the cached per-block BlockInfo are unchanged      *)
(* afterwards.                                                              *)
C31_ReadOnlyCallsLeaveMediumAlone ==
    [][(\/ last'.op = "read"
        \/ last'.op = "delete" /\ LookupFails(last'.path))
           => /\ medium' = medium
              /\ wlog' = <<>>
              /\ blocks' = blocks]_vars

C31_Witness ==
    /\ last.op = "delete"
    /\ last.kind = "Err"
    /\ last.n >= 1
    /\ wlog = <<>>
    /\ medium = image(gran, files)

-----------------------------------------------------------------------------
(* Mounting                                                                 *)

(* C32: Storage::mount scans every block index 0..BLOCK_COUNT exactly once, *)
(* in ascending order, and records one BlockInfo per block; if the scan of  *)
(* any block fails, mount returns an error, scans no further block and      *)
(* produces no Storage handle; format_and_mount does not attempt to mount   *)
(* when format failed.                                                      *)
C32_MountScansEveryBlockOnce ==
    [][last'.op \in {"storage_mount", "format_and_mount"} =>
        \A scanned \in {last'.bytes} :
            /\ \A i \in DOMAIN scanned : scanned[i] = i - 1
            /\ Len(scanned) <= BLOCK_COUNT
            /\ last'.kind = "Ok" =>
                   /\ Len(scanned) = BLOCK_COUNT
                   /\ last'.n = 0
                   /\ blocks' = [b \in Blocks |-> scan_block(medium', b)]
            /\ last'.n > 0 =>
                   /\ last'.kind = "Err"
                   /\ Len(scanned) = last'.n
            /\ last'.kind = "Err" => blocks' = NoObject
            /\ (\E i \in DOMAIN wlog' : ~wlog'[i].ok) =>
                   /\ last'.op = "format_and_mount"
                   /\ last'.kind = "Err"
                   /\ scanned = <<>>]_vars

C32_Witness ==
    /\ last.op = "storage_mount"
    /\ last.kind = "Err"
    /\ last.n = 3
    /\ Len(last.bytes) = 3
    /\ blocks = NoObject
    /\ files # <<>>

-----------------------------------------------------------------------------
(* Object locations as bytes                                                *)

(* C33: ObjectLocation serialization round-trips: for every location with   *)
(* block < BLOCK_COUNT and offset < BLOCK_SIZE, into_bytes produces exactly *)
(* object_location_bytes() significant bytes (the block index in            *)
(* block_count_bytes() little-endian bytes, then the offset) and from_bytes *)
(* of those bytes returns the same location; from_bytes of a slice of any   *)
(* other length returns an error.                                           *)
C33_LocationRoundTrip ==
    /\ last.op = "into_bytes" =>
           /\ Len(last.bytes) = object_location_bytes
           /\ last.n = object_location_bytes
           /\ from_le_bytes(SubSeq(last.bytes, 1, block_count_bytes))
                  = last.location.block
           /\ from_le_bytes(SubSeq(last.bytes, block_count_bytes + 1,
                                   Len(last.bytes))) = last.location.offset
           /\ ObjectLocation_from_bytes(last.bytes)
                  = [ok |-> TRUE, location |-> last.location]
    /\ last.op = "from_bytes" =>
           (last.kind = "Err" <=> Len(last.bytes) # object_location_bytes)
    /\ \A b \in Blocks, o \in {0, BLOCK_SIZE - 1} :
           ObjectLocation_from_bytes(ObjectLocation_into_bytes(Loc(b, o)))
               = [ok |-> TRUE, location |-> Loc(b, o)]

C33_Witness ==
    /\ last.op = "from_bytes"
    /\ last.kind = "Ok"
    /\ last.location = Loc(BLOCK_COUNT - 1, BLOCK_SIZE - 1)

-----------------------------------------------------------------------------
(* Calls refused because of the object state                                *)

(* a write or finalize called on a writer whose object is not Allocated *)
CallOnUnallocated ==
    /\ IF writer = NoObject THEN FALSE
       ELSE writer.pc = "idle" /\ writer.state # "Allocated"
    /\ last'.op \in {"write", "finalize"}

(* C34: on an ObjectWriter whose object is not in state Allocated (allocate *)
(* not yet called, or constructed over a non-Allocated object), write and   *)
(* finalize return an error without issuing any medium write and without    *)
(* changing the writer's cursor; ObjectOps::update_state with target state  *)
(* Free likewise returns an error without writing.                          *)
C34_RefusedCallsDoNotWrite ==
    [][/\ CallOnUnallocated =>
             /\ last'.kind = "Err"
             /\ wlog' = <<>>
             /\ medium' = medium
             /\ IF writer' = NoObject THEN last'.op = "finalize"
                ELSE writer'.cursor = writer.cursor
       /\ \A l \in {FirstMeta, FirstData}, io_fail \in BOOLEAN :
              \A u \in {update_state(gran, medium, l, "Free", io_fail)} :
                  ~u.ok /\ u.log = <<>> /\ u.med = medium
       /\ (last'.op = "update_state" /\ wlog' = <<>>) =>
              last'.kind = "Err" /\ medium' = medium]_vars

C34_Witness ==
    /\ last.op = "write"
    /\ last.kind = "Err"
    /\ wlog = <<>>
    /\ IF writer = NoObject THEN FALSE
       ELSE writer.state \in {"Free", "Finalized"} /\ writer.cursor = 0

-----------------------------------------------------------------------------
(* The application: what becomes of a finished measurement                  *)
(* (states/upload_or_store_measurement.rs)                                  *)

SAMPLE_RATE == 1000
MIN_SECONDS == 20

MeasurementActions == {"Ask", "Auto", "Store", "Upload", "Discard"}

(* a pair (can_upload, can_store) *)
Permit(can_upload, can_store) ==
    [can_upload |-> can_upload, can_store |-> can_store]

(* the items of AskForMeasurementActionMenu *)
MenuItems(network_configured, can_store) ==
    (IF network_configured /\ can_store THEN {Permit(TRUE, TRUE)} ELSE {})
        \cup (IF network_configured THEN {Permit(TRUE, FALSE)} ELSE {})
        \cup (IF can_store THEN {Permit(FALSE, TRUE)} ELSE {})
        \cup {Permit(FALSE, FALSE)}

(* ask_for_measurement_action: choice is the item the user picked, or       *)
(* NoObject when the menu returned nothing                                  *)
ask_for_measurement_action(network_configured, can_store, choice) ==
    IF ~network_configured /\ ~can_store THEN Permit(FALSE, FALSE)
    ELSE IF choice = NoObject THEN Permit(FALSE, FALSE)
    ELSE choice

(* the match on board.config.measurement_action *)
permitted(action, network_configured, can_store, choice) ==
    CASE action = "Ask" ->
             ask_for_measurement_action(network_configured, can_store, choice)
      [] action = "Auto" -> Permit(TRUE, TRUE)
      [] action = "Store" -> Permit(FALSE, TRUE)
      [] action = "Upload" -> Permit(TRUE, FALSE)
      [] action = "Discard" -> Permit(FALSE, FALSE)

(* the network as a call meets it: backend URL configured, STA enabled,     *)
(* connection made, client resources allocated, and whether the upload of   *)
(* the measurement succeeds                                                 *)
Networks ==
    [url : BOOLEAN, sta : BOOLEAN, connected : BOOLEAN, resources : BOOLEAN,
     upload_ok : BOOLEAN]

Upload(result, attempted, ok, messages) ==
    [result |-> result, attempted |-> attempted, ok |-> ok,
     messages |-> messages]

try_to_upload_storing(net) ==
    IF ~net.url THEN Upload("Store", FALSE, FALSE, <<>>)
    ELSE IF ~net.sta THEN Upload("Store", FALSE, FALSE, <<>>)
    ELSE IF ~net.connected THEN Upload("Store", FALSE, FALSE, <<>>)
    ELSE IF ~net.resources
    THEN Upload("Store", FALSE, FALSE,
                <<"Uploading measurement", "Out of memory">>)
    ELSE IF net.upload_ok
    THEN Upload("Store", TRUE, TRUE,
                <<"Uploading measurement", "Upload successful">>)
    ELSE Upload("Store", TRUE, FALSE,
                <<"Uploading measurement", "Upload failed">>)

(* try_to_upload: attempted tells whether upload_measurement was called, ok *)
(* whether it returned Ok                                                   *)
try_to_upload(net) ==
    IF ~net.url THEN Upload("Store", FALSE, FALSE, <<>>)
    ELSE IF ~net.sta THEN Upload("Store", FALSE, FALSE, <<>>)
    ELSE IF ~net.connected THEN Upload("Store", FALSE, FALSE, <<>>)
    ELSE IF ~net.resources
    THEN Upload("Store", FALSE, FALSE,
                <<"Uploading measurement", "Out of memory">>)
    ELSE IF net.upload_ok
    THEN Upload("DontStore", TRUE, TRUE,
                <<"Uploading measurement", "Upload successful">>)
    ELSE Upload("Store", TRUE, FALSE,
                <<"Uploading measurement", "Upload failed">>)

(* try_store_measurement: Ok without a storage, else what the storage       *)
(* answers                                                                  *)
try_store_measurement(storage_present, store_ok) ==
    [ok |-> ~storage_present \/ store_ok,
     stored |-> storage_present /\ store_ok,
     messages |-> <<"Saving measurement">>]

(* upload_or_store_measurement: what the call did and what it returned *)
upload_or_store_measurement(sample_count, permit, net, storage, store_ok, work) ==
    IF sample_count < MIN_SECONDS * SAMPLE_RATE
    THEN [returned |-> "next_state", upload_attempted |-> FALSE,
          uploaded |-> FALSE, store_attempted |-> FALSE, stored |-> FALSE,
          store_failed |-> FALSE, upload_stored |-> FALSE,
          messages |-> <<"Measurement too short, discarding">>]
    ELSE
      Bind(IF permit.can_upload THEN try_to_upload(net)
           ELSE Upload("Store", FALSE, FALSE, <<>>), LAMBDA up :
      Bind(up.result = "Store", LAMBDA store_after_upload :
      Bind(IF permit.can_store /\ store_after_upload
           THEN try_store_measurement(storage, store_ok)
           ELSE [ok |-> TRUE, stored |-> FALSE, messages |-> <<>>], LAMBDA st :
        [returned |-> "next_state",
         upload_attempted |-> up.attempted,
         uploaded |-> up.ok,
         store_attempted |-> permit.can_store /\ store_after_upload,
         stored |-> st.stored,
         store_failed |-> ~st.ok,
         upload_stored |-> permit.can_upload /\ ~store_after_upload /\ work,
         messages |-> up.messages \o st.messages \o
                         (IF st.ok THEN <<>>
                          ELSE <<"Could not store measurement">>)])))

SampleCounts == {0, MIN_SECONDS * SAMPLE_RATE - 1, MIN_SECONDS * SAMPLE_RATE,
                 MIN_SECONDS * SAMPLE_RATE + 1}

(* one call of upload_or_store_measurement; upload keeps its inputs and     *)
(* what it did                                                              *)
UploadOrStoreMeasurement ==
    \E sample_count \in SampleCounts, action \in MeasurementActions,
       network_configured \in BOOLEAN, storage_present \in BOOLEAN,
       net \in Networks, store_ok \in BOOLEAN, has_work \in BOOLEAN :
      \E choice \in MenuItems(network_configured, storage_present)
                        \cup {NoObject} :
      \E permit \in {permitted(action, network_configured, storage_present,
                               choice)} :
        /\ upload = NoObject
        /\ net.url \/ ~network_configured
        /\ upload' = [op |-> "upload_or_store_measurement",
                      sample_count |-> sample_count, action |-> action,
                      permit |-> permit, net |-> net,
                      storage_present |-> storage_present,
                      did |-> upload_or_store_measurement(
                                  sample_count, permit, net, storage_present,
                                  store_ok, has_work)]
        /\ UNCHANGED <<storageVars, ecg, sta>>

InitApp == InitWith({<<>>}) /\ gran = "Bit"

(* the application goes on to next_state *)
NextState ==
    /\ upload # NoObject
    /\ upload' = NoObject
    /\ UNCHANGED <<storageVars, ecg, sta>>

NextMeasurement == UploadOrStoreMeasurement \/ NextState

SpecMeasurement == InitApp /\ [][NextMeasurement]_vars

(* the last call was upload_or_store_measurement *)
Handled ==
    IF upload = NoObject THEN FALSE
    ELSE upload.op = "upload_or_store_measurement"

(* C35: in upload_or_store_measurement a measurement is never both uploaded *)
(* successfully and stored: storing is attempted exactly when storing is    *)
(* permitted and either no upload was attempted or the upload attempt did   *)
(* not succeed; a measurement shorter than 20000 samples is neither         *)
(* uploaded nor stored; a failed store shows the message and the function   *)
(* still returns next_state.                                                *)
C35_UploadedOrStoredNeverBoth ==
    Handled =>
        \A did \in {upload.did} :
            /\ ~(did.uploaded /\ did.stored)
            /\ ~(did.uploaded /\ did.store_attempted)
            /\ upload.sample_count >= 20000 =>
                   (did.store_attempted <=>
                        /\ upload.permit.can_store
                        /\ (~did.upload_attempted \/ ~did.uploaded))
            /\ upload.sample_count < 20000 =>
                   /\ ~did.upload_attempted /\ ~did.uploaded
                   /\ ~did.store_attempted /\ ~did.stored
            /\ did.store_failed =>
                   /\ did.messages[Len(did.messages)]
                          = "Could not store measurement"
                   /\ did.returned = "next_state"
            /\ did.returned = "next_state"

C35_Witness ==
    /\ Handled
    /\ IF Handled
       THEN /\ upload.did.upload_attempted
            /\ ~upload.did.uploaded
            /\ upload.did.store_failed
            /\ upload.did.returned = "next_state"
       ELSE FALSE

-----------------------------------------------------------------------------
(* upload_stored: the stored measurements are uploaded and deleted          *)

MaxFiles == 3

(* one call made by the loop and whether it returned Ok *)
Event(call, file, ok) == [call |-> call, file |-> file, ok |-> ok]

(* what one turn of the loop meets: the result of dir.next, of file.name,   *)
(* of load_measurement, of upload_measurement and of file.delete            *)
DirEntries ==
    [next : {"None", "Err", "File"},
     name : {"meas.", "other", "InsufficientBuffer", "Err"},
     load_ok : BOOLEAN, upload_ok : BOOLEAN, delete_ok : BOOLEAN]

(* the lines after the loop: the message, and signal receives the argument  *)
(* of signal_sta_work_available                                             *)
upload_stored_finish(st, events, success) ==
    [st EXCEPT !.pc = "done", !.events = events, !.success = success,
               !.messages = Append(@, IF success THEN "Upload successful"
                                      ELSE "Failed to upload measurements"),
               !.signal = <<~success>>]

upload_stored_loop_past_failures(st, entry) ==
    Bind(st.index + 1, LAMBDA file :
      IF entry.next = "Err"
      THEN upload_stored_finish(
               st, Append(st.events, Event("next", file, FALSE)), FALSE)
      ELSE IF entry.next = "None"
      THEN upload_stored_finish(
               st, Append(st.events, Event("next", file, TRUE)), st.success)
      ELSE
        Bind(Append(st.events, Event("next", file, TRUE)), LAMBDA e1 :
          IF entry.name = "Err"
          THEN upload_stored_finish(
                   [st EXCEPT !.index = file],
                   Append(e1, Event("name", file, FALSE)), FALSE)
          ELSE IF entry.name # "meas."
          THEN [st EXCEPT !.index = file,
                          !.events = Append(e1, Event("name", file, TRUE))]
          ELSE
            Bind(Append(e1, Event("name", file, TRUE)), LAMBDA e2 :
              IF ~entry.load_ok
              THEN [st EXCEPT !.index = file,
                              !.events = Append(e2, Event("load", file, FALSE))]
              ELSE
                Bind(Append(e2, Event("load", file, TRUE)), LAMBDA e3 :
                  IF ~entry.upload_ok
                  THEN [st EXCEPT !.index = file, !.success = FALSE,
                                  !.events =
                                      Append(e3, Event("upload", file, FALSE))]
                  ELSE [st EXCEPT
                          !.index = file,
                          !.events =
                              Append(Append(e3, Event("upload", file, TRUE)),
                                     Event("delete", file,
                                           entry.delete_ok))]))))

(* one turn of the loop of upload_stored, and the lines after the loop when *)
(* the turn breaks out of it                                                *)
upload_stored_loop(st, entry) ==
    Bind(st.index + 1, LAMBDA file :
      IF entry.next = "Err"
      THEN upload_stored_finish(
               st, Append(st.events, Event("next", file, FALSE)), FALSE)
      ELSE IF entry.next = "None"
      THEN upload_stored_finish(
               st, Append(st.events, Event("next", file, TRUE)), st.success)
      ELSE
        Bind(Append(st.events, Event("next", file, TRUE)), LAMBDA e1 :
          IF entry.name = "Err"
          THEN upload_stored_finish(
                   [st EXCEPT !.index = file],
                   Append(e1, Event("name", file, FALSE)), FALSE)
          ELSE IF entry.name # "meas."
          THEN [st EXCEPT !.index = file,
                          !.events = Append(e1, Event("name", file, TRUE))]
          ELSE
            Bind(Append(e1, Event("name", file, TRUE)), LAMBDA e2 :
              IF ~entry.load_ok
              THEN [st EXCEPT !.index = file,
                              !.events = Append(e2, Event("load", file, FALSE))]
              ELSE
                Bind(Append(e2, Event("load", file, TRUE)), LAMBDA e3 :
                  IF ~entry.upload_ok
                  THEN upload_stored_finish(
                           [st EXCEPT !.index = file],
                           Append(e3, Event("upload", file, FALSE)), FALSE)
                  ELSE [st EXCEPT
                          !.index = file,
                          !.events =
                              Append(Append(e3, Event("upload", file, TRUE)),
                                     Event("delete", file,
                                           entry.delete_ok))]))))

(* the lines of upload_stored before the loop: every early return leaves    *)
(* the signal alone                                                         *)
upload_stored_begin(sta_enabled, connected, storage, read_dir_ok, resources) ==
    Bind([op |-> "upload_stored", pc |-> "returned", index |-> 0,
          success |-> TRUE, events |-> <<>>, messages |-> <<>>,
          signal |-> <<>>], LAMBDA st :
      IF ~sta_enabled THEN [st EXCEPT !.messages = <<"Nothing to upload">>]
      ELSE IF ~connected
      THEN [st EXCEPT !.messages = <<"Failed to connect to WiFi">>]
      ELSE IF ~storage
      THEN [st EXCEPT !.messages = <<"Uploading stored measurements...",
                                     "Storage not available">>]
      ELSE IF ~read_dir_ok
      THEN [st EXCEPT !.events = <<Event("read_dir", 0, FALSE)>>,
                      !.messages = <<"Uploading stored measurements...",
                                     "Could not read storage">>]
      ELSE IF ~resources
      THEN [st EXCEPT !.events = <<Event("read_dir", 0, TRUE)>>,
                      !.messages = <<"Uploading stored measurements...",
                                     "Out of memory">>]
      ELSE [st EXCEPT !.pc = "loop",
                      !.events = <<Event("read_dir", 0, TRUE)>>,
                      !.messages = <<"Uploading stored measurements...">>])

(* upload_stored is called *)
UploadStored ==
    \E sta_enabled \in BOOLEAN, connected \in BOOLEAN,
       storage_present \in BOOLEAN, read_dir_ok \in BOOLEAN,
       resources_ok \in BOOLEAN :
        /\ upload = NoObject
        /\ upload' = upload_stored_begin(sta_enabled, connected,
                                         storage_present, read_dir_ok,
                                         resources_ok)
        /\ UNCHANGED <<storageVars, ecg, sta>>

(* the call is in its loop *)
InLoop ==
    IF upload = NoObject THEN FALSE
    ELSE IF upload.op # "upload_stored" THEN FALSE
    ELSE upload.pc = "loop"

(* one turn of the loop; the directory holds at most MaxFiles files *)
DirNext ==
    \E entry \in DirEntries :
        /\ InLoop
        /\ entry.next = "File" => upload.index < MaxFiles
        /\ upload' = upload_stored_loop(upload, entry)
        /\ UNCHANGED <<storageVars, ecg, sta>>

(* upload_stored has returned and the caller goes on *)
UploadStoredReturns ==
    /\ upload # NoObject
    /\ ~InLoop
    /\ upload' = NoObject
    /\ UNCHANGED <<storageVars, ecg, sta>>

NextUploadStored == UploadStored \/ DirNext \/ UploadStoredReturns

SpecUploadStored == InitApp /\ [][NextUploadStored]_vars

(* upload_stored is running or has just returned *)
Uploading ==
    IF upload = NoObject THEN FALSE ELSE upload.op = "upload_stored"

(* a call of the run failed: an upload, a file-name read or a directory read *)
SomeReadOrUploadFailed ==
    \E k \in 1..Len(upload.events) :
        /\ upload.events[k].call \in {"upload", "name", "next", "read_dir"}
        /\ ~upload.events[k].ok

(* every delete follows the successful upload of the same file, and a       *)
(* failed upload is the last call of the run and signals work               *)
DeleteAfterUploadAndStopAtFailure ==
    /\ \A k \in 1..Len(upload.events) :
           upload.events[k].call = "delete" =>
               \E j \in 1..(k - 1) :
                   upload.events[j]
                       = Event("upload", upload.events[k].file, TRUE)
    /\ \A k \in 1..Len(upload.events) :
           (upload.events[k].call = "upload" /\ ~upload.events[k].ok) =>
               /\ k = Len(upload.events)
               /\ upload.pc = "done"
               /\ upload.signal = <<TRUE>>

(* C36 as stated: in upload_stored a stored measurement file is deleted     *)
(* only after its own upload returned success; the first upload failure     *)
(* stops the loop and sets the work-available flag to true; every run in    *)
(* which no upload, file-name read or directory read failed sets the flag   *)
(* to false.                                                                *)
C36_EveryCleanRunClearsFlag ==
    Uploading =>
        /\ DeleteAfterUploadAndStopAtFailure
        /\ (upload.pc # "loop" /\ ~SomeReadOrUploadFailed) =>
               upload.signal = <<FALSE>>

(* C36: in upload_stored a stored measurement file is deleted only after    *)
(* its own upload returned success; the first upload failure stops the loop *)
(* (no later file is uploaded or deleted) and sets the work-available flag  *)
(* to true; a run that reaches the loop and in which no upload, file-name   *)
(* read or directory read failed sets the flag to false; a run that returns *)
(* before the loop makes no call on a file and leaves the flag as it was.   *)
C36_DeleteAfterUploadFlagFollowsSuccess ==
    Uploading =>
        /\ DeleteAfterUploadAndStopAtFailure
        /\ (upload.pc = "done" /\ ~SomeReadOrUploadFailed) =>
               upload.signal = <<FALSE>>
        /\ upload.pc = "returned" =>
               /\ upload.signal = <<>>
               /\ \A k \in 1..Len(upload.events) :
                      upload.events[k].call = "read_dir"

C36_Witness ==
    /\ Uploading
    /\ IF Uploading
       THEN /\ upload.pc = "done"
            /\ upload.signal = <<TRUE>>
            /\ Event("delete", 1, TRUE) \in
                   {upload.events[k] : k \in 1..Len(upload.events)}
            /\ Event("upload", 2, FALSE) \in
                   {upload.events[k] : k \in 1..Len(upload.events)}
       ELSE FALSE

-----------------------------------------------------------------------------
(* The measurement: reader_task and measure_impl over the message queue     *)
(* (states/measure.rs)                                                      *)

QUEUE_LEN == 32

Sample == [type |-> "Sample", result |-> "Ok"]

End(result) == [type |-> "End", result |-> result]

(* Channel::try_send: refused when the queue is full *)
try_send(queue, message) ==
    IF Len(queue) < QUEUE_LEN
    THEN [ok |-> TRUE, queue |-> Append(queue, message)]
    ELSE [ok |-> FALSE, queue |-> queue]

(* the state measure_impl returns when it receives End *)
measure_result(result, elapsed, buffer) ==
    IF result = "Ok" /\ ~elapsed THEN "Menu(Main)"
    ELSE IF buffer THEN "UploadOrStore"
    ELSE "Shutdown"

(* measure_impl has spawned reader_task; control is THREAD_CONTROL, a       *)
(* static that outlives the measurement                                     *)
Measuring(buffer, control) ==
    [queue |-> <<>>, reader |-> "read_ecg", result |-> "Ok",
     control |-> control, frontend |-> "reader", main |-> "try_recv",
     buffer |-> buffer, elapsed |-> FALSE, lost |-> FALSE, ends |-> 0,
     state |-> "none"]

(* measure_impl up to the spawn of reader_task *)
Measure ==
    \E buffer \in BOOLEAN :
        /\ ecg = NoObject
        /\ ecg' = Measuring(buffer, FALSE)
        /\ UNCHANGED <<storageVars, upload, sta>>

reader_in(pc) == IF ecg = NoObject THEN FALSE ELSE ecg.reader = pc

main_in(pc) == IF ecg = NoObject THEN FALSE ELSE ecg.main = pc

(* read_ecg: a sample was read while touched; it is lost when the queue is  *)
(* full                                                                     *)
ReadSample ==
    /\ reader_in("read_ecg")
    /\ \E r \in {try_send(ecg.queue, Sample)} :
           ecg' = [ecg EXCEPT !.queue = r.queue, !.lost = @ \/ ~r.ok]
    /\ UNCHANGED <<storageVars, upload, sta>>

(* read_ecg returns: Ok when the touch is released, Err at a read error *)
ReadEnds ==
    \E result \in {"Ok", "Err"} :
        /\ reader_in("read_ecg")
        /\ ecg' = [ecg EXCEPT !.reader = "send", !.result = result]
        /\ UNCHANGED <<storageVars, upload, sta>>

(* the select of reader_task completes on THREAD_CONTROL *)
ControlEnds ==
    /\ reader_in("read_ecg")
    /\ ecg.control
    /\ ecg' = [ecg EXCEPT !.reader = "send", !.result = "Ok",
                          !.control = FALSE]
    /\ UNCHANGED <<storageVars, upload, sta>>

(* Channel::send: completes only when the queue has room *)
send(queue, message) ==
    [ready |-> Len(queue) < QUEUE_LEN, queue |-> Append(queue, message)]

reader_send_end_try(e) ==
    Bind(try_send(e.queue, End(e.result)), LAMBDA r :
      [ready |-> TRUE,
       ecg |-> [e EXCEPT !.queue = r.queue, !.reader = "finished",
                         !.frontend = IF r.ok THEN "queue" ELSE "dropped",
                         !.ends = IF r.ok THEN @ + 1 ELSE @]])

(* sender.send(Message::End(frontend, result)).await, the last statement of *)
(* reader_task                                                              *)
reader_send_end(e) ==
    Bind(send(e.queue, End(e.result)), LAMBDA r :
      [ready |-> r.ready,
       ecg |-> [e EXCEPT !.queue = r.queue, !.reader = "finished",
                         !.frontend = "queue", !.ends = @ + 1]])

(* the send of End completes; it waits while the queue is full *)
SendEnd ==
    /\ reader_in("send")
    /\ \E r \in {reader_send_end(ecg)} :
           /\ r.ready
           /\ ecg' = r.ecg
    /\ UNCHANGED <<storageVars, upload, sta>>

(* one turn of `while let Ok(message) = queue.try_recv()` *)
TryRecv ==
    /\ main_in("try_recv")
    /\ ecg' = IF ecg.queue = <<>> THEN [ecg EXCEPT !.main = "frame"]
              ELSE IF Head(ecg.queue).type = "Sample"
              THEN [ecg EXCEPT !.queue = Tail(@)]
              ELSE [ecg EXCEPT
                      !.queue = Tail(@), !.frontend = "board",
                      !.main = "returned",
                      !.state = measure_result(Head(ecg.queue).result,
                                               ecg.elapsed, ecg.buffer)]
    /\ UNCHANGED <<storageVars, upload, sta>>

(* the rest of the loop of measure_impl: THREAD_CONTROL is signalled when   *)
(* the battery is low, a frame is drawn, the ticker is awaited              *)
Frame ==
    \E low \in BOOLEAN :
        /\ main_in("frame")
        /\ ecg' = [ecg EXCEPT !.main = "try_recv", !.control = @ \/ low]
        /\ UNCHANGED <<storageVars, upload, sta>>

(* the shutdown timer elapses *)
TimerElapses ==
    /\ ecg # NoObject
    /\ ~main_in("returned")
    /\ ~ecg.elapsed
    /\ ecg' = [ecg EXCEPT !.elapsed = TRUE]
    /\ UNCHANGED <<storageVars, upload, sta>>

(* a later measurement *)
MeasureAgain ==
    \E buffer \in BOOLEAN :
        /\ main_in("returned")
        /\ reader_in("finished")
        /\ ecg' = Measuring(buffer, ecg.control)
        /\ UNCHANGED <<storageVars, upload, sta>>

NextEcg ==
    \/ Measure
    \/ ReadSample
    \/ ReadEnds
    \/ ControlEnds
    \/ SendEnd
    \/ TryRecv
    \/ Frame
    \/ TimerElapses
    \/ MeasureAgain

(* both tasks are run when they can: the loop of measure_impl goes on and   *)
(* the blocked send completes once the queue has room                       *)
SpecEcg ==
    /\ InitApp
    /\ [][NextEcg]_vars
    /\ WF_vars(TryRecv)
    /\ WF_vars(Frame)
    /\ WF_vars(SendEnd)

(* the End messages in the queue *)
EndsQueued ==
    {k \in 1..Len(ecg.queue) : ecg.queue[k].type = "End"}

(* at most one End is sent, it is the last message of its queue, the        *)
(* frontend travels with it, and measure_impl returns what the End it       *)
(* received decides                                                         *)
OneEndLast ==
    ecg # NoObject =>
        /\ ecg.ends = IF ecg.reader = "finished" THEN 1 ELSE 0
        /\ Len(ecg.queue) <= QUEUE_LEN
        /\ EndsQueued \subseteq {Len(ecg.queue)}
        /\ ecg.reader # "finished" => EndsQueued = {}
        /\ ecg.reader = "finished" =>
               IF ecg.main = "returned"
               THEN EndsQueued = {} /\ ecg.frontend = "board"
               ELSE EndsQueued = {Len(ecg.queue)} /\ ecg.frontend = "queue"
        /\ ecg.main = "returned" =>
               /\ ecg.reader = "finished"
               /\ ecg.state \in {"Menu(Main)", "UploadOrStore", "Shutdown"}
               /\ ecg.state = "Menu(Main)" =>
                      ecg.result = "Ok"
               /\ ecg.state = "UploadOrStore" =>
                      ecg.buffer /\ (ecg.result = "Err" \/ ecg.elapsed)
               /\ ecg.state = "Shutdown" =>
                      ~ecg.buffer /\ (ecg.result = "Err" \/ ecg.elapsed)

(* the timer had not elapsed when Menu(Main) was returned *)
MenuBeforeTimer ==
    (main_in("try_recv") /\ main_in("returned")' /\ ecg'.state = "Menu(Main)")
        => ~ecg.elapsed

(* C37: for every interleaving of reader_task and measure_impl over the     *)
(* 32-slot queue, Sample messages may be dropped when the queue is full,    *)
(* but reader_task delivers exactly one End, after its last Sample, with a  *)
(* send that is never dropped; once the reader has stopped, measure_impl    *)
(* eventually receives End, takes back the frontend and returns Menu(Main)  *)
(* if the result is Ok and the shutdown timer has not elapsed, else         *)
(* UploadOrStore when a buffer exists, else Shutdown.                       *)
C37_EndIsDeliveredOnce ==
    /\ []OneEndLast
    /\ [][MenuBeforeTimer]_vars
    /\ (reader_in("send") \/ (reader_in("finished") /\ ~main_in("returned")))
           ~> (main_in("returned") /\ ecg.frontend = "board")

C37_Witness ==
    /\ main_in("returned")
    /\ IF ecg = NoObject THEN FALSE
       ELSE /\ ecg.lost
            /\ ecg.ends = 1
            /\ ecg.frontend = "board"
            /\ ecg.state = "UploadOrStore"

-----------------------------------------------------------------------------
(* The Wi-Fi station: StaState::start, stop and handle (board/wifi/sta.rs)  *)

MaxStaCalls == 4

(* StaState::init: the controller is held, no connection task runs.  pc is  *)
(* where a call stands, started the state of the Wi-Fi hardware, sta_tasks  *)
(* and net_tasks the tasks spawned and not stopped, history the calls made, *)
(* returned what the last call returned                                     *)
StaState_init ==
    [controller |-> "Some", connection_task_control |-> "None",
     pc |-> "idle", started |-> FALSE, sta_tasks |-> 0, net_tasks |-> 0,
     history |-> <<>>, returned |-> "none"]

(* StaState::start *)
StaState_start(s) ==
    IF s.controller = "Some"
    THEN [s EXCEPT !.controller = "None", !.connection_task_control = "Some",
                   !.sta_tasks = @ + 1, !.net_tasks = @ + 1,
                   !.history = Append(@, "start"), !.returned = "Sta"]
    ELSE [s EXCEPT !.history = Append(@, "start"), !.returned = "Sta"]

(* StaState::stop up to the end of the join: the task control is taken and  *)
(* both tasks are stopped                                                   *)
StaState_stop_take(s) ==
    IF s.connection_task_control = "Some"
    THEN [s EXCEPT !.connection_task_control = "None", !.pc = "stop",
                   !.sta_tasks = 0, !.net_tasks = 0,
                   !.history = Append(@, "stop"), !.returned = "none"]
    ELSE [s EXCEPT !.history = Append(@, "stop"), !.returned = "none"]

StaState_stop_finish_dropping(s, stop_ok) ==
    IF s.started /\ ~stop_ok THEN [s EXCEPT !.pc = "panic"]
    ELSE [s EXCEPT !.pc = "idle", !.started = FALSE]

(* the rest of StaState::stop: the controller is taken out of the task's    *)
(* resources, stopped if it is started (a failure panics), and put back     *)
StaState_stop_finish(s, stop_ok) ==
    IF s.started /\ ~stop_ok THEN [s EXCEPT !.pc = "panic"]
    ELSE [s EXCEPT !.pc = "idle", !.started = FALSE, !.controller = "Some"]

(* StaState::handle *)
StaState_handle(s) ==
    IF s.connection_task_control = "Some" THEN "Some" ELSE "None"

sta_at(pc) == IF sta = NoObject THEN FALSE ELSE sta.pc = pc

MoreStaCalls == sta_at("idle") /\ Len(sta.history) < MaxStaCalls

StaInit ==
    /\ sta = NoObject
    /\ sta' = StaState_init
    /\ UNCHANGED <<storageVars, upload, ecg>>

StaStart ==
    /\ MoreStaCalls
    /\ sta' = StaState_start(sta)
    /\ UNCHANGED <<storageVars, upload, ecg>>

StaStop ==
    /\ MoreStaCalls
    /\ sta' = StaState_stop_take(sta)
    /\ UNCHANGED <<storageVars, upload, ecg>>

StaStopFinish ==
    \E stop_ok \in BOOLEAN :
        /\ sta_at("stop")
        /\ sta' = StaState_stop_finish(sta, stop_ok)
        /\ UNCHANGED <<storageVars, upload, ecg>>

StaHandle ==
    /\ MoreStaCalls
    /\ sta' = [sta EXCEPT !.history = Append(@, "handle"),
                          !.returned = StaState_handle(sta)]
    /\ UNCHANGED <<storageVars, upload, ecg>>

(* sta_task starts the controller when it is not started *)
StaTaskStartsController ==
    /\ sta_at("idle")
    /\ sta.sta_tasks > 0
    /\ ~sta.started
    /\ sta' = [sta EXCEPT !.started = TRUE]
    /\ UNCHANGED <<storageVars, upload, ecg>>

NextSta ==
    \/ StaInit
    \/ StaStart
    \/ StaStop
    \/ StaStopFinish
    \/ StaHandle
    \/ StaTaskStartsController

SpecSta == InitApp /\ [][NextSta]_vars

(* no call is in progress: exactly one of the two options is Some, and the  *)
(* tasks run exactly when the task control is held                          *)
OneHolder ==
    sta_at("idle") =>
        /\ (sta.controller = "Some") # (sta.connection_task_control = "Some")
        /\ sta.sta_tasks = IF sta.connection_task_control = "Some" THEN 1 ELSE 0
        /\ sta.net_tasks = sta.sta_tasks
        /\ sta.returned \in {"Some", "None"} =>
               (sta.returned = "Some" <=> sta.connection_task_control = "Some")

(* what a completed call changes *)
CallsAsSpecified ==
    /\ (StaStart /\ sta.connection_task_control = "Some") =>
           /\ sta'.sta_tasks = sta.sta_tasks
           /\ sta'.net_tasks = sta.net_tasks
           /\ sta'.connection_task_control = "Some"
    /\ (StaStart /\ sta.controller = "Some") =>
           /\ sta'.sta_tasks = 1
           /\ sta'.connection_task_control = "Some"
    /\ (StaStop /\ sta.connection_task_control = "None") =>
           sta' = [sta EXCEPT !.history = Append(@, "stop"),
                              !.returned = "none"]
    /\ (StaStopFinish /\ sta_at("idle")') =>
           sta'.controller = "Some" /\ ~sta'.started
    /\ StaHandle =>
           (sta'.returned = "Some" <=> sta.connection_task_control = "Some")

(* C38: after any completed sequence of StaState::start and StaState::stop  *)
(* calls exactly one of controller and connection_task_control is Some:     *)
(* start when already started spawns no second STA/NET task, stop when not  *)
(* started does nothing, stop returns the Wi-Fi controller so that a later  *)
(* start can reuse it, and handle() returns Some exactly when the STA is    *)
(* started.                                                                 *)
C38_ExactlyOneHolder ==
    []OneHolder /\ [][CallsAsSpecified]_vars

C38_Witness ==
    /\ sta_at("idle")
    /\ IF sta = NoObject THEN FALSE
       ELSE /\ sta.history = <<"start", "start", "stop", "start">>
            /\ sta.sta_tasks = 1
            /\ sta.controller = "None"

====
